---- MODULE Spec2Model ----
(***************************************************************************)
(* Verification model of the real-call orchestration of the AI phone agent *)
(* (backend/main.py) together with the audio helpers it relies on          *)
(* (backend/services/audio_utils.py).                                      *)
(*                                                                         *)
(* One browser session (one call_id, fixed by browser_websocket) is        *)
(* modelled.  The session owns the process-wide registries keyed by that   *)
(* call_id; call tasks (_run_call_real), Twilio media-stream handlers      *)
(* (twilio_media_stream) and the HTTP / browser handlers interleave at     *)
(* their await points, as on the asyncio event loop.                       *)
(*                                                                         *)
(* The session is one whose intent resolved a target phone and for which   *)
(* Twilio credentials are configured, so _run_call dispatches to           *)
(* _run_call_real.                                                         *)
(***************************************************************************)
EXTENDS Integers, Sequences, FiniteSets, TLC

(***************************************************************************)
(* Bounds of the model                                                     *)
(***************************************************************************)
\* number of call tasks start_call may create for the session
MaxTasks == 2
\* number of CallState objects prepare_session may create for the session
MaxInputs == 1
\* number of media events forwarded to one audio queue
MaxMedia == 2
\* length in bytes of the longest utterance handed to _send_audio_to_twilio
MaxUtterance == 1500
\* number of queue items one receive_speech call is fed
MaxChunks == 3

(***************************************************************************)
(* Program constants                                                       *)
(***************************************************************************)
ENERGY_THRESHOLD == 40
MIN_SPEECH_BYTES == 6400
MAX_SILENT_ROUNDS == 3
STREAM_WAIT_SECS == 90
CHUNK_SIZE == 640
\* telephony sample rate: one mu-law byte per 1/8000 s
SAMPLE_RATE == 8000
\* the 0.3 s added to the pacing delay, in tenths of a second
PACING_EXTRA_TENTHS == 3
\* receive_speech timing, in tenths of a second: the queue poll interval
\* (0.3 s), SILENCE_DURATION (2.0 s) and MAX_SPEECH_WAIT (45.0 s)
POLL_INTERVAL == 3
SILENCE_DURATION == 20
MAX_SPEECH_WAIT == 450

Tasks == 1..MaxTasks
\* The vendor opens one media stream per call it placed: the handler that
\* serves the stream of the call placed by task t is handler t.
Handlers == Tasks
CallStates == 1..MaxInputs

\* CallStatus values used by the real-call path (models/schemas.py)
IN_PROGRESS == "in_progress"
COMPLETED == "completed"
FAILED == "failed"

\* ActionType (models/schemas.py)
ActionTypes == {"speak", "dtmf", "wait", "end_call"}

(***************************************************************************)
(* Audio data.  A byte string is represented by a repeating pattern and a  *)
(* length: byte i (1-based) is pat[((i-1) % Len(pat)) + 1].  Every pattern *)
(* of the model has length 1 or 2, so all 16-bit samples of a byte string  *)
(* are equal.                                                              *)
(***************************************************************************)
Bytes(pat, len) == [pat |-> pat, len |-> len]

ByteAt(d, i) == d.pat[((i - 1) % Len(d.pat)) + 1]

\* The end-of-stream sentinel put on the queue (Python None)
None == [none |-> TRUE]

IsNone(x) == "none" \in DOMAIN x

Abs(x) == IF x < 0 THEN -x ELSE x

Pow2(n) == CASE n = 0 -> 1 [] n = 1 -> 2 [] n = 2 -> 4 [] n = 3 -> 8
             [] n = 4 -> 16 [] n = 5 -> 32 [] n = 6 -> 64 [] n = 7 -> 128

\* mulaw_to_linear: decode one mu-law byte to a signed 16-bit sample
mulaw_to_linear(b) ==
  LET nb == 255 - b
      sign == nb \div 128
      exponent == (nb \div 16) % 8
      mantissa == nb % 16
      magnitude == ((mantissa * 8 + 132) * Pow2(exponent)) - 132
  IN IF sign = 1 THEN -magnitude ELSE magnitude

\* struct.pack("<h", s): the two little-endian bytes of a signed 16-bit sample
PackLE16(s) ==
  LET u == IF s < 0 THEN s + 65536 ELSE s
  IN <<u % 256, u \div 256>>

\* struct.unpack("<h", ...): the signed 16-bit sample of two little-endian bytes
UnpackLE16(lo, hi) ==
  LET u == lo + 256 * hi
  IN IF u >= 32768 THEN u - 65536 ELSE u

RECURSIVE PackAll(_)
PackAll(samples) ==
  IF samples = <<>> THEN <<>>
  ELSE PackLE16(Head(samples)) \o PackAll(Tail(samples))

\* mulaw_to_pcm_bytes: every mu-law byte becomes one little-endian 16-bit sample
mulaw_to_pcm_bytes(mulaw_bytes) ==
  Bytes(PackAll([i \in 1..Len(mulaw_bytes.pat) |-> mulaw_to_linear(mulaw_bytes.pat[i])]),
        2 * mulaw_bytes.len)

\* sample j (1-based) of a slin16 byte string
SampleAt(data, j) == UnpackLE16(ByteAt(data, 2 * j - 1), ByteAt(data, 2 * j))

\* chunk_energy(data) > threshold.  The code compares the mean absolute
\* amplitude sum(abs(s))/num_samples with the threshold; all samples of a
\* byte string of the model are equal, so the sum is num_samples * |s1|.
EnergyAbove(data, threshold) ==
  LET num_samples == data.len \div 2
  IN IF num_samples = 0 THEN FALSE
     ELSE num_samples * Abs(SampleAt(data, 1)) > threshold * num_samples

\* base64.b64decode of a media payload: the bytes the vendor encoded
b64decode(payload) == payload.raw

\* The media payloads the vendor sends (mu-law bytes, base64-encoded on the
\* wire): 0.8 s of a loud tone, 20 ms of mu-law silence, and an empty payload.
MediaPayloads ==
  { [raw |-> Bytes(<<127>>, 6400)],
    [raw |-> Bytes(<<255>>, 160)],
    [raw |-> Bytes(<<>>, 0)] }

RECURSIVE TotalLen(_)
TotalLen(chunks) ==
  IF chunks = <<>> THEN 0 ELSE Head(chunks).len + TotalLen(Tail(chunks))

(***************************************************************************)
(* State                                                                   *)
(***************************************************************************)
VARIABLES
  browser_connections, \* call_id in browser_connections
  active_calls,        \* 0, or the CallState object active_calls[call_id]
  call_tasks,          \* 0, or the task call_tasks[call_id]
  audio_queues,        \* 0, or the queue audio_queues[call_id] (named by its task)
  twilio_call_sids,    \* 0, or the call sid twilio_call_sids[call_id]
  twilio_streams,      \* 0, or the handler whose socket is twilio_streams[call_id]
  twilio_stream_sids,  \* 0, or the stream sid twilio_stream_sids[call_id]
  status,              \* status of each CallState object ("absent": not created)
  queue,               \* contents of the asyncio.Queue created by each task
  pc,                  \* await point of each call task
  call_state,          \* the CallState object each task was started with
  twilio_sid,          \* _run_call_real local: 0 (None) or the sid returned
  polls,               \* number of one-second sleeps of the stream wait so far
  silent_rounds,       \* _run_call_real local
  speech_detected,     \* receive_speech local
  silence_start,       \* receive_speech local: a silence timer is running
  audio_buffer,        \* receive_speech local: the chunks buffered so far
  agent_action,        \* _run_call_real local: action type being dispatched
  vendor_call,         \* vendor side of the call of each task: none/live/ended
  stream,              \* each media-stream handler: idle/open/started/closed
  exit_path,           \* history: how each task left the normal flow
  errors,              \* history: "error" messages each task sent to the browser
  end_calls,           \* history: number of _end_twilio_call invocations per task
  arrived,             \* history: every item put on each queue, in order
  consumed,            \* history: every item receive_speech got from each queue
  mulaw_bytes,         \* _send_audio_to_twilio: the utterance to send
  send_pc,             \* _send_audio_to_twilio: await point
  send_i,              \* _send_audio_to_twilio: loop index i (0-based offset)
  ws_open,             \* the vendor socket accepts writes
  ws_out,              \* messages written to the vendor socket, in order
  slept,               \* pacing delay slept so far, in 1/8000 s
  ws,                  \* _send_audio_to_twilio local: 0, or the socket looked up
  stream_sid,          \* _send_audio_to_twilio local: 0 (None or ""), or the sid
  seg_pc,              \* one timed receive_speech call: idle/waiting/returned
  seg_now,             \* time.time() since the call started, in tenths of a second
  seg_speech_detected, \* receive_speech local speech_detected
  seg_silence_start,   \* receive_speech local silence_start (-1: None)
  seg_audio_buffer,    \* receive_speech local audio_buffer, as its chunks
  seg_result,          \* the value returned, as its chunks
  seg_exit,            \* history: the statement that left the loop
  seg_fed,             \* history: the items taken from the queue, in order
  seg_idle_polls,      \* history: poll timeouts in a row since the last item (capped)
  fn_arg,              \* a helper function followed on its own: its argument
  fn_out,              \* ... and the values computed from it so far, in order
  conversation_log,    \* _run_call_real local: the transcript of the call
  turn_count,          \* _run_call_real local
  uttering,            \* the utterance being spoken: kind, text, TTS result, sent
  browser_out,         \* messages sent to the browser by the call task, in order
  vendor_out,          \* utterances whose audio was written to the vendor stream
  sim                  \* one simulated call: both ends and the two directions of the socket

registries == <<call_tasks, audio_queues, twilio_call_sids>>
streams == <<twilio_streams, twilio_stream_sids>>
session == <<browser_connections, active_calls>>
segmenter == <<speech_detected, silence_start, audio_buffer>>
locals == <<call_state, twilio_sid, polls, silent_rounds, agent_action>>
queues == <<queue, arrived, consumed>>
history == <<exit_path, errors, end_calls>>

\* state of the call orchestration
mainvars == <<session, registries, streams, status, queues, pc, locals,
              segmenter, vendor_call, stream, history>>

\* state of one _send_audio_to_twilio invocation
sender == <<mulaw_bytes, send_pc, send_i, ws_open, ws_out, slept, ws, stream_sid>>

\* state of one receive_speech call followed with its clock
timed == <<seg_pc, seg_now, seg_speech_detected, seg_silence_start,
           seg_audio_buffer, seg_result, seg_exit, seg_fed, seg_idle_polls>>

\* state of one helper function followed on its own
pure == <<fn_arg, fn_out>>

\* what one call task says and reports, followed on its own
talk == <<conversation_log, turn_count, uttering, browser_out, vendor_out>>

\* state of the component models
bench == <<sender, timed, pure, talk, sim>>

vars == <<mainvars, bench>>

MainInit ==
  /\ browser_connections = TRUE
  /\ active_calls = 0
  /\ call_tasks = 0
  /\ audio_queues = 0
  /\ twilio_call_sids = 0
  /\ twilio_streams = 0
  /\ twilio_stream_sids = 0
  /\ status = [c \in CallStates |-> "absent"]
  /\ queue = [t \in Tasks |-> <<>>]
  /\ pc = [t \in Tasks |-> "none"]
  /\ call_state = [t \in Tasks |-> 0]
  /\ twilio_sid = [t \in Tasks |-> 0]
  /\ polls = [t \in Tasks |-> 0]
  /\ silent_rounds = [t \in Tasks |-> 0]
  /\ speech_detected = [t \in Tasks |-> FALSE]
  /\ silence_start = [t \in Tasks |-> FALSE]
  /\ audio_buffer = [t \in Tasks |-> <<>>]
  /\ agent_action = [t \in Tasks |-> "none"]
  /\ vendor_call = [t \in Tasks |-> "none"]
  /\ stream = [h \in Handlers |-> "idle"]
  /\ exit_path = [t \in Tasks |-> "none"]
  /\ errors = [t \in Tasks |-> <<>>]
  /\ end_calls = [t \in Tasks |-> 0]
  /\ arrived = [t \in Tasks |-> <<>>]
  /\ consumed = [t \in Tasks |-> <<>>]

\* no _send_audio_to_twilio invocation is being followed
SenderIdle ==
  /\ mulaw_bytes = <<>>
  /\ send_pc = "idle"
  /\ send_i = 0
  /\ ws_open = TRUE
  /\ ws_out = <<>>
  /\ slept = 0
  /\ ws = 0
  /\ stream_sid = 0

\* no receive_speech call is being followed with its clock
TimedIdle ==
  /\ seg_pc = "idle"
  /\ seg_now = 0
  /\ seg_speech_detected = FALSE
  /\ seg_silence_start = -1
  /\ seg_audio_buffer = <<>>
  /\ seg_result = <<>>
  /\ seg_exit = "none"
  /\ seg_fed = <<>>
  /\ seg_idle_polls = 0

\* no helper function is being followed on its own
PureIdle ==
  /\ fn_arg = 0
  /\ fn_out = <<>>

\* no call task is being followed with its transcript
NoUtterance == [kind |-> "none", text |-> "", tts |-> "none", sent |-> FALSE, base |-> 0]

TalkIdle ==
  /\ conversation_log = <<>>
  /\ turn_count = 0
  /\ uttering = NoUtterance
  /\ browser_out = <<>>
  /\ vendor_out = <<>>

\* no simulated call is being followed
SimIdle == sim = 0

BenchIdle == SenderIdle /\ TimedIdle /\ PureIdle /\ TalkIdle /\ SimIdle

Init == MainInit /\ BenchIdle

(***************************************************************************)
(* Helpers shared by the actions                                           *)
(***************************************************************************)
\* asyncio.Queue: put appends, get removes the oldest item
QueuePut(q, item) == Append(q, item)

\* a queue that hands out its newest item first
QueueGet_newest(q) == q[Len(q)]

QueueGet(q) == Head(q)

QueueRest(q) == Tail(q)

NumChunks(items) == Cardinality({i \in 1..Len(items) : ~IsNone(items[i])})

\* the "error" message of the stream wait (main.py 641-647): it names the
\* target and the number of seconds waited, and gives the trial-account hint
ErrorNoStream ==
  [type |-> "error", message |-> "no_stream_connection",
   names |-> {"target_label", "STREAM_WAIT_SECS"}]

\* the "error" message of the exception handler (main.py 878-880)
ErrorCall ==
  [type |-> "error", message |-> "call_error", names |-> {"exception"}]

\* a loop that needs one more silent round before it gives up
SilenceCapReached_late(rounds) == rounds > MAX_SILENT_ROUNDS

\* line 716: if silent_rounds >= MAX_SILENT_ROUNDS: break
SilenceCapReached(rounds) == rounds >= MAX_SILENT_ROUNDS

\* line 885-886 of the finally block
FinalStatus(s) == IF s # COMPLETED THEN FAILED ELSE s

\* task.cancel(): CancelledError is raised at the await the task is suspended
\* at; it is not an Exception, so only the finally block runs.  A task that
\* has not started yet never enters the try block.
CancelPc(t) == IF pc[t] = "created" THEN "done" ELSE "teardown"

CancelExit(t) ==
  IF pc[t] = "created" THEN "never_ran"
  ELSE IF exit_path[t] = "none" THEN "cancelled" ELSE exit_path[t]

Cancel(t) ==
  IF t = 0
  THEN UNCHANGED <<pc, exit_path>>
  ELSE /\ pc' = [pc EXCEPT ![t] = CancelPc(t)]
       /\ exit_path' = [exit_path EXCEPT ![t] = CancelExit(t)]

\* except Exception as e: send one "error" message, then the finally block
Raise(t, why) ==
  /\ errors' = [errors EXCEPT ![t] = Append(@, ErrorCall)]
  /\ exit_path' = [exit_path EXCEPT ![t] = why]
  /\ pc' = [pc EXCEPT ![t] = "teardown"]

(***************************************************************************)
(* Browser and HTTP handlers                                               *)
(***************************************************************************)
\* _handle_user_input: prepare_session builds a fresh CallState with status
\* IN_PROGRESS, which replaces active_calls[call_id]
handle_user_input ==
  /\ UNCHANGED bench
  /\ browser_connections
  /\ \E c \in CallStates :
       /\ status[c] = "absent"
       /\ \A d \in CallStates : d < c => status[d] # "absent"
       /\ status' = [status EXCEPT ![c] = IN_PROGRESS]
       /\ active_calls' = c
  /\ UNCHANGED <<browser_connections, registries, streams, queues, pc,
                 locals, segmenter, vendor_call, stream, history>>

\* POST /api/start-call/{call_id}: the request is rejected (no state change)
\* unless the session, its intent and its browser connection exist and no
\* task is registered; otherwise a task is created and registered
start_call ==
  /\ UNCHANGED bench
  /\ active_calls # 0
  /\ browser_connections
  /\ call_tasks = 0
  /\ \E t \in Tasks :
       /\ pc[t] = "none"
       /\ \A u \in Tasks : u < t => pc[u] # "none"
       /\ pc' = [pc EXCEPT ![t] = "created"]
       /\ call_state' = [call_state EXCEPT ![t] = active_calls]
       /\ call_tasks' = t
  /\ UNCHANGED <<session, audio_queues, twilio_call_sids, streams, status,
                 queues, twilio_sid, polls, silent_rounds, agent_action, segmenter,
                 vendor_call, stream, history>>

\* browser_websocket, finally block: the browser disconnected
browser_disconnect ==
  /\ UNCHANGED bench
  /\ browser_connections
  /\ browser_connections' = FALSE
  /\ active_calls' = 0
  /\ audio_queues' = 0
  /\ call_tasks' = 0
  /\ Cancel(call_tasks)
  /\ UNCHANGED <<twilio_call_sids, streams, status, queues, locals,
                 segmenter, vendor_call, stream, errors, end_calls>>

(***************************************************************************)
(* _run_call_real, one action per await point                              *)
(***************************************************************************)
\* lines 605-620: the task starts running; the queue is created and registered
Begin(t) ==
  /\ UNCHANGED bench
  /\ pc[t] = "created"
  /\ audio_queues' = t
  /\ pc' = [pc EXCEPT ![t] = "dial"]
  /\ UNCHANGED <<session, call_tasks, twilio_call_sids, streams, status,
                 queues, locals, segmenter, vendor_call, stream, history>>

\* _create_twilio_call, in the executor: the vendor creates the call
VendorCreateCall(t) ==
  /\ UNCHANGED bench
  /\ pc[t] = "dial"
  /\ vendor_call[t] = "none"
  /\ vendor_call' = [vendor_call EXCEPT ![t] = "live"]
  /\ UNCHANGED <<session, registries, streams, status, queues, pc, locals,
                 segmenter, stream, history>>

\* lines 622-631: the call sid is returned and registered
DialReturn(t) ==
  /\ UNCHANGED bench
  /\ pc[t] = "dial"
  /\ vendor_call[t] = "live"
  /\ twilio_sid' = [twilio_sid EXCEPT ![t] = t]
  /\ twilio_call_sids' = t
  /\ pc' = [pc EXCEPT ![t] = "wait_stream"]
  /\ UNCHANGED <<session, call_tasks, audio_queues, streams, status, queues,
                 call_state, polls, silent_rounds, agent_action, segmenter,
                 vendor_call, stream, history>>

\* line 622: the call creation raises (HTTP error)
DialFail(t) ==
  /\ UNCHANGED bench
  /\ pc[t] = "dial"
  /\ vendor_call[t] = "none"
  /\ Raise(t, "place_error")
  /\ UNCHANGED <<session, registries, streams, status, queues, locals,
                 segmenter, vendor_call, stream, end_calls>>

\* lines 633-655: one check of the stream wait.  The loop checks before each
\* of its STREAM_WAIT_SECS sleeps and line 640 checks once more after the last.
PollStream(t) ==
  /\ UNCHANGED bench
  /\ pc[t] = "wait_stream"
  /\ IF twilio_streams # 0
     THEN /\ pc' = [pc EXCEPT ![t] = "intro"]
          /\ polls' = [polls EXCEPT ![t] = 0]
          /\ UNCHANGED <<errors, exit_path>>
     ELSE IF polls[t] < STREAM_WAIT_SECS
     THEN /\ polls' = [polls EXCEPT ![t] = @ + 1]
          /\ UNCHANGED <<pc, errors, exit_path>>
     ELSE /\ errors' = [errors EXCEPT ![t] = Append(@, ErrorNoStream)]
          /\ exit_path' = [exit_path EXCEPT ![t] = "timeout"]
          /\ pc' = [pc EXCEPT ![t] = "teardown"]
          /\ UNCHANGED polls
  /\ UNCHANGED <<session, registries, streams, status, queues, call_state,
                 twilio_sid, silent_rounds, agent_action, segmenter, vendor_call,
                 stream, end_calls>>

\* lines 657-696: the agent introduces itself (TTS failures are logged only)
Intro(t) ==
  /\ UNCHANGED bench
  /\ pc[t] = "intro"
  /\ pc' = [pc EXCEPT ![t] = "listen"]
  /\ UNCHANGED <<session, registries, streams, status, queues, locals,
                 segmenter, vendor_call, stream, history>>

\* lines 699-707: top of the conversation loop, receive_speech(queue) is called
Listen(t) ==
  /\ UNCHANGED bench
  /\ pc[t] = "listen"
  /\ pc' = [pc EXCEPT ![t] = "recv"]
  /\ speech_detected' = [speech_detected EXCEPT ![t] = FALSE]
  /\ silence_start' = [silence_start EXCEPT ![t] = FALSE]
  /\ audio_buffer' = [audio_buffer EXCEPT ![t] = <<>>]
  /\ UNCHANGED <<session, registries, streams, status, queues, locals,
                 vendor_call, stream, history>>

\* a loop that keeps the count of silent rounds when speech is returned
ReturnSpeech_keeps_count(t, detected, buffer) ==
  LET speech == detected /\ ~(TotalLen(buffer) < MIN_SPEECH_BYTES)
      rounds == silent_rounds[t] + 1
  IN /\ speech_detected' = [speech_detected EXCEPT ![t] = FALSE]
     /\ silence_start' = [silence_start EXCEPT ![t] = FALSE]
     /\ audio_buffer' = [audio_buffer EXCEPT ![t] = <<>>]
     /\ IF ~speech
        THEN /\ silent_rounds' = [silent_rounds EXCEPT ![t] = rounds]
             /\ IF SilenceCapReached(rounds)
                THEN /\ pc' = [pc EXCEPT ![t] = "completed"]
                     /\ status' = [status EXCEPT ![call_state[t]] = COMPLETED]
                     /\ exit_path' = [exit_path EXCEPT ![t] = "silence_cap"]
                ELSE /\ pc' = [pc EXCEPT ![t] = "nudge"]
                     /\ UNCHANGED <<status, exit_path>>
        ELSE /\ silent_rounds' = silent_rounds
             /\ pc' = [pc EXCEPT ![t] = "transcribe"]
             /\ UNCHANGED <<status, exit_path>>

\* audio_utils.py 140-143 and main.py 709-718, 754-758: receive_speech returns
\* and, with no await in between, the loop counts a silent round (ending the
\* loop at the cap) or goes on to transcribe the turn
ReturnSpeech(t, detected, buffer) ==
  LET speech == detected /\ ~(TotalLen(buffer) < MIN_SPEECH_BYTES)
      rounds == silent_rounds[t] + 1
  IN /\ speech_detected' = [speech_detected EXCEPT ![t] = FALSE]
     /\ silence_start' = [silence_start EXCEPT ![t] = FALSE]
     /\ audio_buffer' = [audio_buffer EXCEPT ![t] = <<>>]
     /\ IF ~speech
        THEN /\ silent_rounds' = [silent_rounds EXCEPT ![t] = rounds]
             /\ IF SilenceCapReached(rounds)
                THEN /\ pc' = [pc EXCEPT ![t] = "completed"]
                     /\ status' = [status EXCEPT ![call_state[t]] = COMPLETED]
                     /\ exit_path' = [exit_path EXCEPT ![t] = "silence_cap"]
                ELSE /\ pc' = [pc EXCEPT ![t] = "nudge"]
                     /\ UNCHANGED <<status, exit_path>>
        ELSE /\ silent_rounds' = [silent_rounds EXCEPT ![t] = 0]
             /\ pc' = [pc EXCEPT ![t] = "transcribe"]
             /\ UNCHANGED <<status, exit_path>>

\* audio_utils.py 114-138: queue.get() returned an item within the poll interval
RecvChunk(t) ==
  /\ UNCHANGED bench
  /\ pc[t] = "recv"
  /\ queue[t] # <<>>
  /\ LET chunk == QueueGet(queue[t])
     IN /\ queue' = [queue EXCEPT ![t] = QueueRest(@)]
        /\ consumed' = [consumed EXCEPT ![t] = Append(@, chunk)]
        /\ IF IsNone(chunk)
           THEN ReturnSpeech(t, speech_detected[t], audio_buffer[t])
           ELSE LET buffer == Append(audio_buffer[t], chunk)
                    loud == EnergyAbove(chunk, ENERGY_THRESHOLD)
                    detected == speech_detected[t] \/ loud
                IN \E elapsed \in BOOLEAN, expired \in BOOLEAN :
                     IF \/ ~loud /\ speech_detected[t] /\ silence_start[t] /\ elapsed
                        \/ expired
                     THEN ReturnSpeech(t, detected, buffer)
                     ELSE /\ speech_detected' = [speech_detected EXCEPT ![t] = detected]
                          /\ silence_start' =
                               [silence_start EXCEPT ![t] = ~loud /\ speech_detected[t]]
                          /\ audio_buffer' = [audio_buffer EXCEPT ![t] = buffer]
                          /\ UNCHANGED <<pc, silent_rounds, status, exit_path>>
  /\ UNCHANGED <<session, registries, streams, arrived, call_state,
                 twilio_sid, polls, agent_action, vendor_call, stream, errors,
                 end_calls>>

\* audio_utils.py 114-121: the queue stayed empty; the silence timer has run
\* for silence_duration or the overall deadline has passed
RecvTimeout(t) ==
  /\ UNCHANGED bench
  /\ pc[t] = "recv"
  /\ queue[t] = <<>>
  /\ ReturnSpeech(t, speech_detected[t], audio_buffer[t])
  /\ UNCHANGED <<session, registries, streams, queues, call_state,
                 twilio_sid, polls, agent_action, vendor_call, stream, errors,
                 end_calls>>

\* lines 720-752: the filler prompt is spoken and the loop continues
Nudge(t) ==
  /\ UNCHANGED bench
  /\ pc[t] = "nudge"
  /\ pc' = [pc EXCEPT ![t] = "listen"]
  /\ UNCHANGED <<session, registries, streams, status, queues, locals,
                 segmenter, vendor_call, stream, history>>

\* lines 757-789: transcribe_audio returns a text, returns an empty text, or
\* raises (groq_stt.py re-raises every failure)
Transcribe(t) ==
  /\ UNCHANGED bench
  /\ pc[t] = "transcribe"
  /\ \E result \in {"text", "empty", "raise"} :
       CASE result = "text" ->
              /\ pc' = [pc EXCEPT ![t] = "decide"]
              /\ UNCHANGED <<errors, exit_path>>
         [] result = "empty" ->
              /\ pc' = [pc EXCEPT ![t] = "listen"]
              /\ UNCHANGED <<errors, exit_path>>
         [] result = "raise" -> Raise(t, "exception")
  /\ UNCHANGED <<session, registries, streams, status, queues, locals,
                 segmenter, vendor_call, stream, end_calls>>

\* lines 791-798: the action agent decides (it never raises)
Decide(t) ==
  /\ UNCHANGED bench
  /\ pc[t] = "decide"
  /\ \E a \in ActionTypes : agent_action' = [agent_action EXCEPT ![t] = a]
  /\ pc' = [pc EXCEPT ![t] = "respond"]
  /\ UNCHANGED <<session, registries, streams, status, queues, call_state,
                 twilio_sid, polls, silent_rounds, segmenter, vendor_call, stream,
                 history>>

\* lines 800-855: the action is dispatched; END_CALL leaves the loop and the
\* status becomes COMPLETED
Respond(t) ==
  /\ UNCHANGED bench
  /\ pc[t] = "respond"
  /\ agent_action' = [agent_action EXCEPT ![t] = "none"]
  /\ IF agent_action[t] = "end_call"
     THEN /\ pc' = [pc EXCEPT ![t] = "completed"]
          /\ status' = [status EXCEPT ![call_state[t]] = COMPLETED]
          /\ exit_path' = [exit_path EXCEPT ![t] = "end_call"]
     ELSE /\ pc' = [pc EXCEPT ![t] = "listen"]
          /\ UNCHANGED <<status, exit_path>>
  /\ UNCHANGED <<session, registries, streams, queues, call_state,
                 twilio_sid, polls, silent_rounds, segmenter, vendor_call, stream,
                 errors, end_calls>>

\* lines 856-874: call_complete and the SMS summary are sent
Complete(t) ==
  /\ UNCHANGED bench
  /\ pc[t] = "completed"
  /\ pc' = [pc EXCEPT ![t] = "teardown"]
  /\ UNCHANGED <<session, registries, streams, status, queues, locals,
                 segmenter, vendor_call, stream, history>>

\* a finally block that forgets the call-sid registration
PopRegistrations_keeps_sid ==
  /\ call_tasks' = 0
  /\ audio_queues' = 0
  /\ UNCHANGED twilio_call_sids

\* lines 882-884: the three registrations of the call_id are popped
PopRegistrations ==
  /\ call_tasks' = 0
  /\ audio_queues' = 0
  /\ twilio_call_sids' = 0

\* lines 881-887: the finally block up to its await.  Once the registration is
\* popped nothing reads or writes the task's queue again: the queue object and
\* the task's other locals are dropped here.
Teardown(t) ==
  /\ UNCHANGED bench
  /\ pc[t] = "teardown"
  /\ PopRegistrations
  /\ status' = [status EXCEPT ![call_state[t]] = FinalStatus(@)]
  /\ pc' = [pc EXCEPT ![t] = IF twilio_sid[t] # 0 THEN "end_call" ELSE "done"]
  /\ polls' = [polls EXCEPT ![t] = 0]
  /\ silent_rounds' = [silent_rounds EXCEPT ![t] = 0]
  /\ agent_action' = [agent_action EXCEPT ![t] = "none"]
  /\ speech_detected' = [speech_detected EXCEPT ![t] = FALSE]
  /\ silence_start' = [silence_start EXCEPT ![t] = FALSE]
  /\ audio_buffer' = [audio_buffer EXCEPT ![t] = <<>>]
  /\ queue' = [queue EXCEPT ![t] = <<>>]
  /\ arrived' = [arrived EXCEPT ![t] = <<>>]
  /\ consumed' = [consumed EXCEPT ![t] = <<>>]
  /\ UNCHANGED <<session, streams, call_state, twilio_sid, vendor_call,
                 stream, history>>

\* line 888 and _end_twilio_call: the vendor is asked to end the call; a
\* failure is logged and swallowed
EndCall(t) ==
  /\ UNCHANGED bench
  /\ pc[t] = "end_call"
  /\ end_calls' = [end_calls EXCEPT ![t] = @ + 1]
  /\ \E ok \in BOOLEAN :
       vendor_call' = [vendor_call EXCEPT ![t] = IF ok THEN "ended" ELSE @]
  /\ pc' = [pc EXCEPT ![t] = "done"]
  /\ UNCHANGED <<session, registries, streams, status, queues, locals,
                 segmenter, stream, exit_path, errors>>

(***************************************************************************)
(* twilio_media_stream, one action per event                               *)
(***************************************************************************)
\* line 434: the vendor connects the media stream of a live call
StreamAccept(h) ==
  /\ UNCHANGED bench
  /\ stream[h] = "idle"
  /\ vendor_call[h] = "live"
  /\ stream' = [stream EXCEPT ![h] = "open"]
  /\ UNCHANGED <<session, registries, streams, status, queues, pc, locals,
                 segmenter, vendor_call, history>>

\* lines 448-452: the start event registers the socket and the stream sid
StreamStart(h) ==
  /\ UNCHANGED bench
  /\ stream[h] = "open"
  /\ stream' = [stream EXCEPT ![h] = "started"]
  /\ twilio_streams' = h
  /\ twilio_stream_sids' = h
  /\ UNCHANGED <<session, registries, status, queues, pc, locals,
                 segmenter, vendor_call, history>>

\* line 460: chunk = base64.b64decode(payload)
IngestChunk(payload) == b64decode(payload)

\* lines 454-461: a media event is forwarded to the registered queue
StreamMedia(h) ==
  /\ UNCHANGED bench
  /\ stream[h] = "started"
  /\ audio_queues # 0
  /\ NumChunks(arrived[audio_queues]) < MaxMedia
  /\ \E payload \in MediaPayloads :
       IF payload.raw.len > 0
       THEN /\ queue' = [queue EXCEPT ![audio_queues] = QueuePut(@, IngestChunk(payload))]
            /\ arrived' = [arrived EXCEPT ![audio_queues] = Append(@, IngestChunk(payload))]
       ELSE UNCHANGED <<queue, arrived>>
  /\ UNCHANGED <<session, registries, streams, status, consumed, pc, locals,
                 segmenter, vendor_call, stream, history>>

\* lines 463-477: stop event, disconnect or error; the finally block drops the
\* stream registration and puts the sentinel on the registered queue
StreamEnd(h) ==
  /\ UNCHANGED bench
  /\ stream[h] \in {"open", "started"}
  /\ stream' = [stream EXCEPT ![h] = "closed"]
  /\ twilio_streams' = 0
  /\ twilio_stream_sids' = 0
  /\ IF audio_queues # 0
     THEN /\ queue' = [queue EXCEPT ![audio_queues] = QueuePut(@, None)]
          /\ arrived' = [arrived EXCEPT ![audio_queues] = Append(@, None)]
     ELSE UNCHANGED <<queue, arrived>>
  /\ UNCHANGED <<session, registries, status, consumed, pc, locals,
                 segmenter, vendor_call, history>>

Next ==
  \/ handle_user_input
  \/ start_call
  \/ browser_disconnect
  \/ \E t \in Tasks : Begin(t)
  \/ \E t \in Tasks : VendorCreateCall(t)
  \/ \E t \in Tasks : DialReturn(t)
  \/ \E t \in Tasks : DialFail(t)
  \/ \E t \in Tasks : PollStream(t)
  \/ \E t \in Tasks : Intro(t)
  \/ \E t \in Tasks : Listen(t)
  \/ \E t \in Tasks : RecvChunk(t)
  \/ \E t \in Tasks : RecvTimeout(t)
  \/ \E t \in Tasks : Nudge(t)
  \/ \E t \in Tasks : Transcribe(t)
  \/ \E t \in Tasks : Decide(t)
  \/ \E t \in Tasks : Respond(t)
  \/ \E t \in Tasks : Complete(t)
  \/ \E t \in Tasks : Teardown(t)
  \/ \E t \in Tasks : EndCall(t)
  \/ \E h \in Handlers : StreamAccept(h)
  \/ \E h \in Handlers : StreamStart(h)
  \/ \E h \in Handlers : StreamMedia(h)
  \/ \E h \in Handlers : StreamEnd(h)

Spec == Init /\ [][Next]_vars

\* one step of the call task t from the top of the conversation loop to the
\* end of its finally block
LoopStep(t) ==
  \/ Listen(t) \/ RecvChunk(t) \/ RecvTimeout(t) \/ Nudge(t) \/ Transcribe(t)
  \/ Decide(t) \/ Respond(t) \/ Complete(t) \/ Teardown(t) \/ EndCall(t)

\* the event loop resumes every task whose await is over: the polls and the
\* deadline of receive_speech run out (audio_utils.py 114-121), and the
\* speech-to-text, language-model, synthesis and vendor requests return
FairSpec == Spec /\ \A t \in Tasks : WF_vars(LoopStep(t))

(***************************************************************************)
(* _send_audio_to_twilio (main.py 480-508), one action per await point.    *)
(* Byte strings are sequences of byte values here.                         *)
(***************************************************************************)
Min(a, b) == IF a < b THEN a ELSE b

\* base64.b64encode of a chunk: the payload base64.b64decode gives back
b64encode(chunk) == [raw |-> chunk]

\* the utterances handed to the sender: byte k of an utterance is (37 k) mod 256
UtteranceOf(n) == [k \in 1..n |-> (k * 37) % 256]

UtteranceLens ==
  {0, 1, CHUNK_SIZE - 1, CHUNK_SIZE, CHUNK_SIZE + 1, 2 * CHUNK_SIZE, MaxUtterance}

\* a slice that loses the last byte of every chunk
MediaChunk_short(m, i) == SubSeq(m, i + 1, Min(i + CHUNK_SIZE - 1, Len(m)))

\* line 497: chunk = mulaw_bytes[i:i + CHUNK_SIZE]
MediaChunk(m, i) == SubSeq(m, i + 1, Min(i + CHUNK_SIZE, Len(m)))

\* lines 487-490
ClearMessage(sid) == [event |-> "clear", streamSid |-> sid]

\* lines 498-504
MediaMessage(sid, chunk) ==
  [event |-> "media", streamSid |-> sid, payload |-> b64encode(chunk)]

\* lines 507-508: len(mulaw_bytes) / 8000.0 + 0.3 seconds, in 1/8000 s
PacingDelay(n) == n + (PACING_EXTRA_TENTHS * SAMPLE_RATE) \div 10

\* the call: an utterance, and what the two registries hold for the call_id
InitSend ==
  /\ MainInit
  /\ TalkIdle
  /\ SimIdle
  /\ TimedIdle
  /\ PureIdle
  /\ mulaw_bytes \in {UtteranceOf(n) : n \in UtteranceLens}
  /\ ws \in {0, 1}
  /\ stream_sid \in {0, 1}
  /\ send_pc = "call"
  /\ send_i = 0
  /\ ws_open = TRUE
  /\ ws_out = <<>>
  /\ slept = 0

\* lines 481-484: nothing is sent without a registered socket and stream sid
SendLookup ==
  /\ send_pc = "call"
  /\ send_pc' = IF ws = 0 \/ stream_sid = 0 THEN "returned" ELSE "clear"
  /\ UNCHANGED <<mainvars, talk, sim, timed, pure, mulaw_bytes, send_i, ws_open, ws_out, slept, ws, stream_sid>>

\* lines 486-492: the clear message; a failed write ends the call at once
SendClear ==
  /\ send_pc = "clear"
  /\ IF ws_open
     THEN /\ ws_out' = Append(ws_out, ClearMessage(stream_sid))
          /\ send_pc' = IF send_i < Len(mulaw_bytes) THEN "media" ELSE "sleep"
     ELSE /\ send_pc' = "returned"
          /\ UNCHANGED ws_out
  /\ UNCHANGED <<mainvars, talk, sim, timed, pure, mulaw_bytes, send_i, ws_open, slept, ws, stream_sid>>

\* a loop that goes on to the next chunk after a failed write
SendMedia_keeps_going ==
  /\ send_pc = "media"
  /\ ws_out' = IF ws_open
               THEN Append(ws_out, MediaMessage(stream_sid, MediaChunk(mulaw_bytes, send_i)))
               ELSE ws_out
  /\ send_i' = send_i + CHUNK_SIZE
  /\ send_pc' = IF send_i + CHUNK_SIZE < Len(mulaw_bytes) THEN "media" ELSE "sleep"
  /\ UNCHANGED <<mainvars, talk, sim, timed, pure, mulaw_bytes, ws_open, slept, ws, stream_sid>>

\* lines 495-505: one media message; a failed write leaves the loop
SendMedia ==
  /\ send_pc = "media"
  /\ IF ws_open
     THEN /\ ws_out' = Append(ws_out, MediaMessage(stream_sid, MediaChunk(mulaw_bytes, send_i)))
          /\ send_i' = send_i + CHUNK_SIZE
          /\ send_pc' = IF send_i + CHUNK_SIZE < Len(mulaw_bytes) THEN "media" ELSE "sleep"
     ELSE /\ send_pc' = "sleep"
          /\ UNCHANGED <<ws_out, send_i>>
  /\ UNCHANGED <<mainvars, talk, sim, timed, pure, mulaw_bytes, ws_open, slept, ws, stream_sid>>

\* lines 507-508: the pacing sleep
SendSleep ==
  /\ send_pc = "sleep"
  /\ slept' = slept + PacingDelay(Len(mulaw_bytes))
  /\ send_pc' = "returned"
  /\ UNCHANGED <<mainvars, talk, sim, timed, pure, mulaw_bytes, send_i, ws_open, ws_out, ws, stream_sid>>

\* the vendor closes the socket: later writes raise
WsClose ==
  /\ send_pc \in {"clear", "media", "sleep"}
  /\ ws_open
  /\ ws_open' = FALSE
  /\ UNCHANGED <<mainvars, talk, sim, timed, pure, mulaw_bytes, send_pc, send_i, ws_out, slept, ws, stream_sid>>

NextSend == SendLookup \/ SendClear \/ SendMedia \/ SendSleep \/ WsClose

SpecSend == InitSend /\ [][NextSend]_vars

(***************************************************************************)
(* receive_speech (audio_utils.py 90-143) with its clock.  One action per  *)
(* outcome of wait_for(queue.get(), timeout=0.3); the statements up to the *)
(* next await, the loop test included, belong to the same action.  Time    *)
(* passes only while the call waits on the queue.                          *)
(***************************************************************************)
\* the chunks fed to the call: 0.2 s of a loud tone and 0.2 s of silence (slin16)
LoudChunk == Bytes(<<0, 16>>, 3200)

QuietChunk == Bytes(<<0, 0>>, 3200)

FedChunks == {LoudChunk, QuietChunk}

\* line 112: deadline = time.time() + timeout, the call starting at time 0
Deadline == MAX_SPEECH_WAIT

\* a too-short filter that lets every buffer through
TooShort_never(buffer) == FALSE

\* line 140: len(audio_buffer) < MIN_SPEECH_BYTES
TooShort(buffer) == TotalLen(buffer) < MIN_SPEECH_BYTES

\* lines 140-143: the value returned
SpeechResult(detected, buffer) ==
  IF ~detected \/ TooShort(buffer) THEN <<>> ELSE buffer

\* a loop that never looks at the deadline
DeadlinePassed_never(time) == FALSE

\* line 114: while time.time() < deadline
DeadlinePassed(time) == ~(time < Deadline)

\* lines 119 and 137: time.time() - silence_start >= silence_duration
SilenceElapsed(time, since) == time - since >= SILENCE_DURATION

\* the first number of poll timeouts in a row that spans more than
\* SILENCE_DURATION; the history counter seg_idle_polls stops there
IdlePollsCap == SILENCE_DURATION \div POLL_INTERVAL + 1

InitSegmenter ==
  /\ MainInit
  /\ TalkIdle
  /\ SimIdle
  /\ SenderIdle
  /\ PureIdle
  /\ seg_pc = "waiting"
  /\ seg_now = 0
  /\ seg_speech_detected = FALSE
  /\ seg_silence_start = -1
  /\ seg_audio_buffer = <<>>
  /\ seg_result = <<>>
  /\ seg_exit = "none"
  /\ seg_fed = <<>>
  /\ seg_idle_polls = 0

\* the loop is left by `why` (or by the loop test) and the call returns
SegLeave(time, why, detected, buffer) ==
  /\ seg_pc' = "returned"
  /\ seg_exit' = why
  /\ seg_result' = SpeechResult(detected, buffer)

\* end of a loop iteration that did not break: line 114 is tested again
SegLoopTest(time, detected, buffer) ==
  IF DeadlinePassed(time)
  THEN SegLeave(time, "deadline", detected, buffer)
  ELSE UNCHANGED <<seg_pc, seg_exit, seg_result>>

\* lines 116, 128-138: a chunk is taken from the queue `wait` after the poll began
SegChunk ==
  /\ seg_pc = "waiting"
  /\ Len(seg_fed) < MaxChunks
  /\ \E chunk \in FedChunks, wait \in 0..(POLL_INTERVAL - 1) :
       LET time == seg_now + wait
           buffer == Append(seg_audio_buffer, chunk)
           loud == EnergyAbove(chunk, ENERGY_THRESHOLD)
           detected == seg_speech_detected \/ loud
       IN /\ seg_now' = time
          /\ seg_fed' = Append(seg_fed, chunk)
          /\ seg_idle_polls' = 0
          /\ seg_audio_buffer' = buffer
          /\ seg_speech_detected' = detected
          /\ IF loud
             THEN /\ seg_silence_start' = -1
                  /\ SegLoopTest(time, detected, buffer)
             ELSE IF ~seg_speech_detected
             THEN /\ UNCHANGED seg_silence_start
                  /\ SegLoopTest(time, detected, buffer)
             ELSE IF seg_silence_start = -1
             THEN /\ seg_silence_start' = time
                  /\ SegLoopTest(time, detected, buffer)
             ELSE /\ UNCHANGED seg_silence_start
                  /\ IF SilenceElapsed(time, seg_silence_start)
                     THEN SegLeave(time, "silence_at_chunk", detected, buffer)
                     ELSE SegLoopTest(time, detected, buffer)
  /\ UNCHANGED <<mainvars, talk, sim, sender, pure>>

\* lines 116, 123-126: the sentinel is taken from the queue
SegSentinel ==
  /\ seg_pc = "waiting"
  /\ Len(seg_fed) < MaxChunks
  /\ \E wait \in 0..(POLL_INTERVAL - 1) :
       /\ seg_now' = seg_now + wait
       /\ seg_idle_polls' = 0
       /\ seg_fed' = Append(seg_fed, None)
       /\ SegLeave(seg_now + wait, "sentinel", seg_speech_detected, seg_audio_buffer)
  /\ UNCHANGED <<mainvars, talk, sim, sender, pure, seg_speech_detected, seg_silence_start,
                 seg_audio_buffer>>

\* lines 116-121: the queue stayed empty for the poll interval
SegPollTimeout ==
  /\ seg_pc = "waiting"
  /\ seg_now' = seg_now + POLL_INTERVAL
  /\ seg_idle_polls' = Min(seg_idle_polls + 1, IdlePollsCap)
  /\ IF /\ seg_speech_detected
        /\ seg_silence_start # -1
        /\ SilenceElapsed(seg_now + POLL_INTERVAL, seg_silence_start)
     THEN SegLeave(seg_now + POLL_INTERVAL, "silence_at_poll",
                   seg_speech_detected, seg_audio_buffer)
     ELSE SegLoopTest(seg_now + POLL_INTERVAL, seg_speech_detected, seg_audio_buffer)
  /\ UNCHANGED <<mainvars, talk, sim, sender, pure, seg_speech_detected, seg_silence_start,
                 seg_audio_buffer, seg_fed>>

NextSegmenter == SegChunk \/ SegSentinel \/ SegPollTimeout

SpecSegmenter == InitSegmenter /\ [][NextSegmenter]_vars

(***************************************************************************)
(* The mu-law codec (audio_utils.py 32-40 and 206-222) on its own: a byte  *)
(* is decoded, and the sample is encoded again.                            *)
(***************************************************************************)
\* an encoder that forgets the bias
Biased_no_bias(val) == Min(val, 32635)

\* lines 211-213: the magnitude is clipped to 32635 and biased by 132
Biased(val) == Min(val, 32635) + 132

\* line 217: val & (0x80 << exp)
BitSet(val, exp) == (val \div (128 * Pow2(exp))) % 2 = 1

\* lines 215-219: the highest exp in 7..0 whose bit is set, 7 if there is none
ExponentOf(val) ==
  IF \E exp \in 0..7 : BitSet(val, exp)
  THEN CHOOSE exp \in 0..7 :
         /\ BitSet(val, exp)
         /\ \A higher \in (exp + 1)..7 : ~BitSet(val, higher)
  ELSE 7

\* _linear_to_mulaw: encode a signed 16-bit sample to a mu-law byte
linear_to_mulaw(sample) ==
  LET sign == IF sample < 0 THEN 128 ELSE 0
      val == Biased(Abs(sample))
      exponent == ExponentOf(val)
      mantissa == (val \div (8 * Pow2(exponent))) % 16
  IN 255 - (sign + exponent * 16 + mantissa)

InitCodec ==
  /\ MainInit
  /\ TalkIdle
  /\ SimIdle
  /\ SenderIdle
  /\ TimedIdle
  /\ fn_arg \in 0..255
  /\ fn_out = <<>>

DecodeByte ==
  /\ fn_out = <<>>
  /\ fn_out' = <<mulaw_to_linear(fn_arg)>>
  /\ UNCHANGED <<mainvars, talk, sim, sender, timed, fn_arg>>

EncodeSample ==
  /\ Len(fn_out) = 1
  /\ fn_out' = Append(fn_out, linear_to_mulaw(fn_out[1]))
  /\ UNCHANGED <<mainvars, talk, sim, sender, timed, fn_arg>>

NextCodec == DecodeByte \/ EncodeSample

SpecCodec == InitCodec /\ [][NextCodec]_vars

(***************************************************************************)
(* DTMF synthesis (audio_utils.py 151-241) on its own.  Durations are in   *)
(* milliseconds.  The waveform is an integer approximation of the sine    *)
(* sum the code computes (Bhaskara's formula, about three decimal places); *)
(* the sample count, the gap and the encoding are exact.                   *)
(***************************************************************************)
\* a table that also knows the key A of the 4x4 keypad
DTMF_FREQS_with_A == ("1" :> <<697, 1209>>) @@ ("A" :> <<697, 1633>>)

\* _DTMF_FREQS
DTMF_FREQS ==
  ("1" :> <<697, 1209>>) @@ ("2" :> <<697, 1336>>) @@ ("3" :> <<697, 1477>>) @@
  ("4" :> <<770, 1209>>) @@ ("5" :> <<770, 1336>>) @@ ("6" :> <<770, 1477>>) @@
  ("7" :> <<852, 1209>>) @@ ("8" :> <<852, 1336>>) @@ ("9" :> <<852, 1477>>) @@
  ("*" :> <<941, 1209>>) @@ ("0" :> <<941, 1336>>) @@ ("#" :> <<941, 1477>>)

\* the digit arguments tried: the twelve keys, and strings that are no key
DigitInputs == DOMAIN DTMF_FREQS \cup {"", "12", "a", "A", "**"}

\* the (duration, gap) arguments tried, the defaults 0.25 s and 0.05 s first
DurationInputs == {<<250, 50>>, <<10, 0>>, <<0, 5>>}

\* lines 190-191: int(sample_rate * duration)
SampleCount(ms) == (SAMPLE_RATE * ms) \div 1000

\* 10000 sin(2 pi f i / sample_rate), approximately
SinE4(f, i) ==
  LET p == (2 * ((f * i) % SAMPLE_RATE))
      a == IF p < SAMPLE_RATE THEN p ELSE p - SAMPLE_RATE
      w == (a * (SAMPLE_RATE - a)) \div ((SAMPLE_RATE * SAMPLE_RATE) \div 10000)
      h == (16 * w * 10000) \div (50000 - 4 * w)
  IN IF p < SAMPLE_RATE THEN h ELSE -h

\* lines 194-198: int(value * max_val) with max_val = 32767 * 0.5
ToneSample(f1, f2, i) ==
  LET v == SinE4(f1, i) + SinE4(f2, i)
      m == (Abs(v) * 32767) \div 40000
  IN IF v < 0 THEN -m ELSE m

\* line 203: struct.pack of the samples, little-endian 16-bit
PackSamples(samples) ==
  [k \in 1..(2 * Len(samples)) |-> PackLE16(samples[(k + 1) \div 2])[2 - (k % 2)]]

\* generate_dtmf_tone: the bytes returned, and the warning logged
generate_dtmf_tone(digit, duration, gap) ==
  IF digit \notin DOMAIN DTMF_FREQS
  THEN [bytes |-> <<>>, warning |-> "unknown_digit"]
  ELSE LET f1 == DTMF_FREQS[digit][1]
           f2 == DTMF_FREQS[digit][2]
           num_tone_samples == SampleCount(duration)
           num_gap_samples == SampleCount(gap)
           samples == [k \in 1..(num_tone_samples + num_gap_samples) |->
                         IF k <= num_tone_samples
                         THEN ToneSample(f1, f2, k - 1)
                         ELSE 0]
       IN [bytes |-> PackSamples(samples), warning |-> "none"]

\* generate_dtmf_tone_mulaw: the PCM tone, each sample encoded to mu-law
generate_dtmf_tone_mulaw(digit, duration, gap) ==
  LET pcm == generate_dtmf_tone(digit, duration, gap)
      num_samples == Len(pcm.bytes) \div 2
  IN IF pcm.bytes = <<>>
     THEN [bytes |-> <<>>, warning |-> pcm.warning]
     ELSE [bytes |-> [k \in 1..num_samples |->
                        linear_to_mulaw(UnpackLE16(pcm.bytes[2 * k - 1], pcm.bytes[2 * k]))],
           warning |-> pcm.warning]

InitDtmf ==
  /\ MainInit
  /\ TalkIdle
  /\ SimIdle
  /\ SenderIdle
  /\ TimedIdle
  /\ fn_arg \in [digit : DigitInputs, times : DurationInputs]
  /\ fn_out = <<>>

GeneratePcm ==
  /\ fn_out = <<>>
  /\ fn_out' = <<generate_dtmf_tone(fn_arg.digit, fn_arg.times[1], fn_arg.times[2])>>
  /\ UNCHANGED <<mainvars, talk, sim, sender, timed, fn_arg>>

GenerateMulaw ==
  /\ Len(fn_out) = 1
  /\ fn_out' = Append(fn_out,
                      generate_dtmf_tone_mulaw(fn_arg.digit, fn_arg.times[1], fn_arg.times[2]))
  /\ UNCHANGED <<mainvars, talk, sim, sender, timed, fn_arg>>

NextDtmf == GeneratePcm \/ GenerateMulaw

SpecDtmf == InitDtmf /\ [][NextDtmf]_vars

(***************************************************************************)
(* One turn of the real-call loop after the transcript: the action agent   *)
(* decides (action_agent.py 245-372) and the loop dispatches the action    *)
(* (main.py 791-852).  fn_arg holds what the collaborators will answer:    *)
(* the language model's reply and the speech synthesizer's result; fn_out  *)
(* collects the AgentAction, the dispatch record and the forwarded turn.   *)
(* Audio leaves through _send_audio_to_twilio, the sender modelled above.  *)
(***************************************************************************)
\* a JSON string value; null is None; an absent key is Missing
Str(s) == [str |-> s]

Missing == [missing |-> TRUE]

\* the replies of the language model that are tried
LlmReplies ==
  { [kind |-> k, action_type |-> Missing, speech_text |-> Missing, dtmf_digits |-> Missing] :
      k \in {"error", "bad_json"} }
  \cup
  [ kind : {"json"},
    action_type : {Str(a) : a \in ActionTypes} \cup {Str("hangup"), None, Missing},
    speech_text : {Str("Hello"), Str(""), None, Missing},
    dtmf_digits : {Str(<<"1">>), Str(<<"7", "#">>), Missing} ]

\* text_to_speech_for_twilio: it raises, or returns this many mu-law bytes
TtsResults == {[ok |-> FALSE, len |-> 0], [ok |-> TRUE, len |-> 0], [ok |-> TRUE, len |-> 700]}

\* dict.get(key): None for an absent key
JsonGet(v) == IF v = Missing THEN None ELSE v

\* lines 345-350: the table lookup with SPEAK as the default
ActionTypeOf(v) ==
  IF v = Missing \/ IsNone(v) THEN "speak"
  ELSE IF v.str \in ActionTypes THEN v.str ELSE "speak"

\* _generate_action, lines 334-372
generate_action(reply) ==
  CASE reply.kind = "error" ->
         [action_type |-> "speak",
          speech_text |-> Str("I am sorry, could you repeat that?"),
          dtmf_digits |-> None,
          reasoning |-> "LLM error"]
    [] reply.kind = "bad_json" ->
         [action_type |-> "speak",
          speech_text |-> Str("Could you please repeat that?"),
          dtmf_digits |-> None,
          reasoning |-> "JSON parse error, asking to repeat"]
    [] reply.kind = "json" ->
         [action_type |-> ActionTypeOf(reply.action_type),
          speech_text |-> JsonGet(reply.speech_text),
          dtmf_digits |-> JsonGet(reply.dtmf_digits),
          reasoning |-> "LLM-generated response"]

\* line 805: agent_action.speech_text or ""
DisplayOf(action) == IF IsNone(action.speech_text) THEN "" ELSE action.speech_text.str

\* the stream of the call is registered and open; nothing has been sent
InitDispatch ==
  /\ MainInit
  /\ TalkIdle
  /\ SimIdle
  /\ TimedIdle
  /\ fn_arg \in [reply : LlmReplies, tts : TtsResults]
  /\ fn_out = <<>>
  /\ mulaw_bytes = <<>>
  /\ send_pc = "idle"
  /\ send_i = 0
  /\ ws_open = TRUE
  /\ ws_out = <<>>
  /\ slept = 0
  /\ ws = 1
  /\ stream_sid = 1

\* line 792: handle_raw_transcript returns the action
GenerateAction ==
  /\ fn_out = <<>>
  /\ fn_out' = <<generate_action(fn_arg.reply)>>
  /\ UNCHANGED <<mainvars, talk, sim, sender, timed, fn_arg>>

\* lines 804-837: the branch of the action type; only SPEAK and END_CALL with
\* a text synthesize speech and call _send_audio_to_twilio
DispatchAction ==
  /\ Len(fn_out) = 1
  /\ LET action == fn_out[1]
         display_text == DisplayOf(action)
     IN CASE action.action_type \in {"speak", "end_call"} /\ display_text # "" ->
               /\ fn_out' = Append(fn_out, [spoken |-> Str(display_text)])
               /\ IF fn_arg.tts.ok
                  THEN /\ mulaw_bytes' = UtteranceOf(fn_arg.tts.len)
                       /\ send_pc' = "call"
                  ELSE UNCHANGED <<mulaw_bytes, send_pc>>
          [] OTHER ->
               /\ fn_out' = Append(fn_out, [spoken |-> None])
               /\ UNCHANGED <<mulaw_bytes, send_pc>>
  /\ UNCHANGED <<mainvars, talk, sim, timed, fn_arg, send_i, ws_open, ws_out, slept, ws, stream_sid>>

\* lines 839-852: the turn is logged and forwarded to the browser
ForwardTurn ==
  /\ Len(fn_out) = 2
  /\ send_pc \in {"idle", "returned"}
  /\ LET action == fn_out[1]
         display_text ==
           CASE action.action_type \in {"speak", "end_call"} -> <<"text", DisplayOf(action)>>
             [] action.action_type = "dtmf" -> <<"pressed", action.dtmf_digits>>
             [] action.action_type = "wait" -> <<"waiting", action.reasoning>>
     IN fn_out' = Append(fn_out, [speaker |-> "agent",
                                  text |-> display_text,
                                  action_type |-> action.action_type,
                                  dtmf_digits |-> action.dtmf_digits])
  /\ UNCHANGED <<mainvars, talk, sim, sender, timed, fn_arg>>

NextDispatch ==
  \/ GenerateAction
  \/ DispatchAction
  \/ SendLookup
  \/ SendClear
  \/ SendMedia
  \/ SendSleep
  \/ ForwardTurn

SpecDispatch == InitDispatch /\ [][NextDispatch]_vars

(***************************************************************************)
(* twilio_media_stream (main.py 432-477) frame by frame.  fn_arg holds the *)
(* text frames the vendor will send on the socket of handler 1, fn_out the *)
(* outcome of each frame handled so far.  The call task of the session is  *)
(* waiting for the stream; its queue is registered.                        *)
(***************************************************************************)
MaxFrames == 3

\* a text frame: whether it is JSON at all, and the JSON value it holds
NotJson == [wellformed |-> FALSE, value |-> [type |-> "none"]]

JsonArray == [wellformed |-> TRUE, value |-> [type |-> "array"]]

\* a JSON object; event is a string or Missing, streamSid is 0 (absent) or
\* the sid, media is Missing, a string, or an object with its payload
JsonObject(event, sid, media) ==
  [wellformed |-> TRUE,
   value |-> [type |-> "object", event |-> event, streamSid |-> sid, media |-> media]]

MediaField(payload) == [type |-> "object", payload |-> payload]

TextFrames ==
  { NotJson,
    JsonArray,
    JsonObject(Missing, 0, Missing),
    JsonObject(Str("mark"), 1, Missing),
    JsonObject(Str("connected"), 0, Missing),
    JsonObject(Str("start"), 1, Missing),
    JsonObject(Str("media"), 1, MediaField([raw |-> Bytes(<<255>>, 160)])),
    JsonObject(Str("media"), 1, MediaField(Missing)),
    JsonObject(Str("media"), 1, Missing),
    JsonObject(Str("media"), 1, [type |-> "string"]),
    JsonObject(Str("stop"), 1, Missing) }

\* line 441: json.loads(raw)
json_loads(raw) ==
  IF raw.wellformed THEN [ok |-> TRUE, value |-> raw.value] ELSE [ok |-> FALSE]

\* lines 441-465: what the loop body does with one frame.  msg.get raises on
\* a value that is not an object, and so does media.get on a string.
FrameOutcome(raw) ==
  LET parsed == json_loads(raw)
      msg == parsed.value
  IN IF ~parsed.ok THEN "error"
     ELSE IF msg.type # "object" THEN "error"
     ELSE IF msg.event = Str("connected") THEN "logged"
     ELSE IF msg.event = Str("start") THEN "start"
     ELSE IF msg.event = Str("media") THEN
            IF audio_queues = 0 THEN "ignored"
            ELSE IF msg.media = Missing THEN "ignored"
            ELSE IF msg.media.type # "object" THEN "error"
            ELSE IF msg.media.payload = Missing THEN "ignored"
            ELSE IF msg.media.payload.raw.len = 0 THEN "ignored"
            ELSE "media"
     ELSE IF msg.event = Str("stop") THEN "stop"
     ELSE "ignored"

\* the call is placed, the vendor has connected the stream of the session
InitStream ==
  /\ browser_connections = TRUE
  /\ active_calls = 1
  /\ call_tasks = 1
  /\ audio_queues = 1
  /\ twilio_call_sids = 1
  /\ twilio_streams = 0
  /\ twilio_stream_sids = 0
  /\ status = [c \in CallStates |-> IF c = 1 THEN IN_PROGRESS ELSE "absent"]
  /\ queue = [t \in Tasks |-> <<>>]
  /\ pc = [t \in Tasks |-> IF t = 1 THEN "wait_stream" ELSE "none"]
  /\ call_state = [t \in Tasks |-> IF t = 1 THEN 1 ELSE 0]
  /\ twilio_sid = [t \in Tasks |-> IF t = 1 THEN 1 ELSE 0]
  /\ polls = [t \in Tasks |-> 0]
  /\ silent_rounds = [t \in Tasks |-> 0]
  /\ speech_detected = [t \in Tasks |-> FALSE]
  /\ silence_start = [t \in Tasks |-> FALSE]
  /\ audio_buffer = [t \in Tasks |-> <<>>]
  /\ agent_action = [t \in Tasks |-> "none"]
  /\ vendor_call = [t \in Tasks |-> IF t = 1 THEN "live" ELSE "none"]
  /\ stream = [h \in Handlers |-> IF h = 1 THEN "open" ELSE "idle"]
  /\ exit_path = [t \in Tasks |-> "none"]
  /\ errors = [t \in Tasks |-> <<>>]
  /\ end_calls = [t \in Tasks |-> 0]
  /\ arrived = [t \in Tasks |-> <<>>]
  /\ consumed = [t \in Tasks |-> <<>>]
  /\ SenderIdle
  /\ TimedIdle
  /\ TalkIdle
  /\ SimIdle
  /\ fn_arg \in [1..MaxFrames -> TextFrames]
  /\ fn_out = <<>>

\* one pass of the receive loop; "stop" and every exception end in the
\* finally block (lines 467-477)
HandleFrame ==
  /\ UNCHANGED sim
  /\ stream[1] \in {"open", "started"}
  /\ Len(fn_out) < Len(fn_arg)
  /\ LET raw == fn_arg[Len(fn_out) + 1]
         outcome == FrameOutcome(raw)
     IN /\ fn_out' = Append(fn_out, outcome)
        /\ CASE outcome = "start" ->
                  /\ stream' = [stream EXCEPT ![1] = "started"]
                  /\ twilio_streams' = 1
                  /\ twilio_stream_sids' = json_loads(raw).value.streamSid
                  /\ UNCHANGED <<queue, arrived>>
             [] outcome = "media" ->
                  LET chunk == IngestChunk(json_loads(raw).value.media.payload)
                  IN /\ queue' = [queue EXCEPT ![audio_queues] = QueuePut(@, chunk)]
                     /\ arrived' = [arrived EXCEPT ![audio_queues] = Append(@, chunk)]
                     /\ UNCHANGED <<stream, streams>>
             [] outcome \in {"stop", "error"} ->
                  /\ stream' = [stream EXCEPT ![1] = "closed"]
                  /\ twilio_streams' = 0
                  /\ twilio_stream_sids' = 0
                  /\ IF audio_queues # 0
                     THEN /\ queue' = [queue EXCEPT ![audio_queues] = QueuePut(@, None)]
                          /\ arrived' = [arrived EXCEPT ![audio_queues] = Append(@, None)]
                     ELSE UNCHANGED <<queue, arrived>>
             [] OTHER -> UNCHANGED <<stream, streams, queue, arrived>>
  /\ UNCHANGED <<session, registries, status, consumed, pc, locals, segmenter,
                 vendor_call, history, sender, timed, talk, fn_arg>>

\* the call task ends meanwhile: its finally block removes the queue
QueueUnregistered ==
  /\ audio_queues # 0
  /\ audio_queues' = 0
  /\ UNCHANGED <<session, call_tasks, twilio_call_sids, streams, status, queues, pc,
                 locals, segmenter, vendor_call, stream, history, bench>>

NextStream == HandleFrame \/ QueueUnregistered

SpecStream == InitStream /\ [][NextStream]_vars

(***************************************************************************)
(* _run_call_real (main.py 592-888) for one call task, followed with what  *)
(* it records, reports and sends: conversation_log, the messages to the    *)
(* browser (the "agent_update" progress hints left out) and the utterances *)
(* written to the vendor stream.  The collaborators answer                 *)
(* nondeterministically: call placement, receive_speech, transcription,    *)
(* the action agent, speech synthesis; the vendor connects and drops the   *)
(* media stream at any time.  Cancellation is followed in the main model.  *)
(***************************************************************************)
\* the loop is followed until turn_count reaches this bound
MaxTurns == 5

\* _build_agent_intro(intent)
IntroText == "Hello, I am an AI assistant calling on behalf of ..."

\* lines 720-724
NudgeText == "Hello? Are you still there? ..."

\* what the transcription of a turn of speech returns
TranscriptText == "transcript"

\* the actions the agent is followed with
TalkReplies ==
  {r \in LlmReplies : r.dtmf_digits # Str(<<"7", "#">>) /\ r.speech_text # Str("")}

DecidedActions == {generate_action(r) : r \in TalkReplies}

\* line 825: f"[Pressed {agent_action.dtmf_digits}]"
PressedText(digits) == IF IsNone(digits) THEN "[Pressed None]" ELSE "[Pressed 1]"

\* line 832: f"[Waiting: {agent_action.reasoning}]"
WaitingText(reasoning) == "[Waiting: reasoning]"

\* lines 801-832: display_text of the dispatched action
DisplayText(action) ==
  CASE action.action_type \in {"speak", "end_call"} -> DisplayOf(action)
    [] action.action_type = "dtmf" -> PressedText(action.dtmf_digits)
    [] action.action_type = "wait" -> WaitingText(action.reasoning)

\* lines 804-806: only SPEAK and END_CALL with a text are spoken
Spoken(action) ==
  action.action_type \in {"speak", "end_call"} /\ DisplayText(action) # ""

CallStatusMessage(s) == [type |-> "call_status", status |-> s]

CallTurnMessage(speaker, text) == [type |-> "call_turn", speaker |-> speaker, text |-> text]

\* a completion report that leaves the last turn out
CallCompleteMessage_short(total_turns) ==
  [type |-> "call_complete", status |-> "completed", total_turns |-> total_turns - 1]

\* lines 856-859: "call_complete" with total_turns
CallCompleteMessage(total_turns) ==
  [type |-> "call_complete", status |-> "completed", total_turns |-> total_turns]

\* lines 863-869: the arguments of _send_sms_summary
SmsSummary(turns, log) == [turn_count |-> turns, conversation_log |-> log]

\* a transcript that puts the newest entry first
LogAppend_front(log, speaker, text) == <<[speaker |-> speaker, text |-> text]>> \o log

\* conversation_log.append({"speaker": ..., "text": ...})
LogAppend(log, speaker, text) == Append(log, [speaker |-> speaker, text |-> text])

\* a synthesis failure that ends the call
AfterTts_fatal(ok) == IF ok THEN "send" ELSE "teardown"

\* lines 668-675, 729-735, 808-814: a synthesis failure is logged and the
\* utterance is not sent
AfterTts(ok) == IF ok THEN "send" ELSE "forward"

\* lines 635-640: STREAM_WAIT_SECS sleeps, each after a look, and a last look
WaitExhausted(n) == n >= STREAM_WAIT_SECS

\* a loop that also ends after a wait action
LeavesLoop_on_wait(kind) == kind \in {"end_call", "wait"}

\* lines 851-852: if agent_action.action_type == ActionType.END_CALL: break
LeavesLoop(kind) == kind = "end_call"

Goto(p) == pc' = [pc EXCEPT ![1] = p]

\* an utterance begins: nothing synthesized or sent yet
Utterance(kind, text) ==
  [kind |-> kind, text |-> text, tts |-> "pending", sent |-> FALSE, base |-> Len(vendor_out)]

\* the session exists, the browser is connected, start_call created the task
InitConversation ==
  /\ browser_connections = TRUE
  /\ active_calls = 1
  /\ call_tasks = 1
  /\ audio_queues = 0
  /\ twilio_call_sids = 0
  /\ twilio_streams = 0
  /\ twilio_stream_sids = 0
  /\ status = [c \in CallStates |-> IF c = 1 THEN IN_PROGRESS ELSE "absent"]
  /\ queue = [t \in Tasks |-> <<>>]
  /\ pc = [t \in Tasks |-> IF t = 1 THEN "created" ELSE "none"]
  /\ call_state = [t \in Tasks |-> IF t = 1 THEN 1 ELSE 0]
  /\ twilio_sid = [t \in Tasks |-> 0]
  /\ polls = [t \in Tasks |-> 0]
  /\ silent_rounds = [t \in Tasks |-> 0]
  /\ speech_detected = [t \in Tasks |-> FALSE]
  /\ silence_start = [t \in Tasks |-> FALSE]
  /\ audio_buffer = [t \in Tasks |-> <<>>]
  /\ agent_action = [t \in Tasks |-> "none"]
  /\ vendor_call = [t \in Tasks |-> "none"]
  /\ stream = [h \in Handlers |-> "idle"]
  /\ exit_path = [t \in Tasks |-> "none"]
  /\ errors = [t \in Tasks |-> <<>>]
  /\ end_calls = [t \in Tasks |-> 0]
  /\ arrived = [t \in Tasks |-> <<>>]
  /\ consumed = [t \in Tasks |-> <<>>]
  /\ SenderIdle
  /\ TimedIdle
  /\ PureIdle
  /\ TalkIdle
  /\ SimIdle

\* lines 605-620: the queue is registered, "calling" is reported
TalkBegin ==
  /\ UNCHANGED sim
  /\ pc[1] = "created"
  /\ audio_queues' = 1
  /\ browser_out' = Append(browser_out, CallStatusMessage("calling"))
  /\ Goto("dial")
  /\ UNCHANGED <<session, call_tasks, twilio_call_sids, streams, status, queues, locals,
                 segmenter, vendor_call, stream, history, sender, timed, pure,
                 conversation_log, turn_count, uttering, vendor_out>>

\* _create_twilio_call, in the executor: the vendor creates the call
TalkVendorCreateCall ==
  /\ UNCHANGED sim
  /\ pc[1] = "dial"
  /\ vendor_call[1] = "none"
  /\ vendor_call' = [vendor_call EXCEPT ![1] = "live"]
  /\ UNCHANGED <<session, registries, streams, status, queues, pc, locals, segmenter,
                 stream, history, bench>>

\* lines 622-631: the call sid is returned and registered, "ringing" is reported
TalkDialReturn ==
  /\ UNCHANGED sim
  /\ pc[1] = "dial"
  /\ vendor_call[1] = "live"
  /\ twilio_sid' = [twilio_sid EXCEPT ![1] = 1]
  /\ twilio_call_sids' = 1
  /\ browser_out' = Append(browser_out, CallStatusMessage("ringing"))
  /\ Goto("wait_stream")
  /\ UNCHANGED <<session, call_tasks, audio_queues, streams, status, queues, call_state,
                 polls, silent_rounds, agent_action, segmenter, vendor_call, stream,
                 history, sender, timed, pure, conversation_log, turn_count, uttering,
                 vendor_out>>

\* lines 876-880: the exception handler reports the error
TalkRaise(why) ==
  /\ errors' = [errors EXCEPT ![1] = Append(@, ErrorCall)]
  /\ browser_out' = Append(browser_out, ErrorCall)
  /\ exit_path' = [exit_path EXCEPT ![1] = why]
  /\ Goto("teardown")

\* line 622: the call creation raises
TalkDialFail ==
  /\ UNCHANGED sim
  /\ pc[1] = "dial"
  /\ vendor_call[1] = "none"
  /\ TalkRaise("place_error")
  /\ UNCHANGED <<session, registries, streams, status, queues, locals, segmenter,
                 vendor_call, stream, end_calls, sender, timed, pure,
                 conversation_log, turn_count, uttering, vendor_out>>

\* lines 633-666: one look of the stream wait.  A connected stream is
\* reported as "phone_connected" and the intro is logged and begun; after the
\* last look the error is reported and the task returns.
TalkPollStream ==
  /\ UNCHANGED sim
  /\ pc[1] = "wait_stream"
  /\ IF twilio_streams # 0
     THEN /\ browser_out' = Append(browser_out, CallStatusMessage("phone_connected"))
          /\ turn_count' = turn_count + 1
          /\ conversation_log' = LogAppend(conversation_log, "agent", IntroText)
          /\ uttering' = Utterance("intro", IntroText)
          /\ Goto("tts")
          /\ polls' = [polls EXCEPT ![1] = 0]
          /\ UNCHANGED <<errors, exit_path, vendor_out>>
     ELSE IF ~WaitExhausted(polls[1])
     THEN /\ polls' = [polls EXCEPT ![1] = @ + 1]
          /\ UNCHANGED <<pc, errors, exit_path, talk>>
     ELSE /\ errors' = [errors EXCEPT ![1] = Append(@, ErrorNoStream)]
          /\ browser_out' = Append(browser_out, ErrorNoStream)
          /\ exit_path' = [exit_path EXCEPT ![1] = "timeout"]
          /\ Goto("teardown")
          /\ UNCHANGED <<polls, conversation_log, turn_count, uttering, vendor_out>>
  /\ UNCHANGED <<session, registries, streams, status, queues, call_state, twilio_sid,
                 silent_rounds, agent_action, segmenter, vendor_call, stream, end_calls,
                 sender, timed, pure>>

\* text_to_speech_for_twilio returns the audio or raises
TalkSynthesize ==
  /\ UNCHANGED sim
  /\ pc[1] = "tts"
  /\ \E ok \in BOOLEAN :
       /\ uttering' = [uttering EXCEPT !.tts = IF ok THEN "ok" ELSE "failed"]
       /\ Goto(AfterTts(ok))
  /\ UNCHANGED <<session, registries, streams, status, queues, locals, segmenter,
                 vendor_call, stream, history, sender, timed, pure,
                 conversation_log, turn_count, browser_out, vendor_out>>

\* _send_audio_to_twilio: the audio is written when the stream is registered
\* and the socket takes it; nothing is raised otherwise
TalkSendAudio ==
  /\ UNCHANGED sim
  /\ pc[1] = "send"
  /\ \E written \in BOOLEAN :
       IF twilio_streams # 0 /\ twilio_stream_sids # 0 /\ written
       THEN /\ vendor_out' = Append(vendor_out, uttering.text)
            /\ uttering' = [uttering EXCEPT !.sent = TRUE]
       ELSE UNCHANGED <<vendor_out, uttering>>
  /\ Goto("forward")
  /\ UNCHANGED <<session, registries, streams, status, queues, locals, segmenter,
                 vendor_call, stream, history, sender, timed, pure,
                 conversation_log, turn_count, browser_out>>

\* lines 677-696, 737-752, 816-855: the turn is forwarded to the browser; the
\* turn of a dispatched action is logged here; END_CALL leaves the loop and
\* the status becomes COMPLETED
TalkForward ==
  /\ UNCHANGED sim
  /\ pc[1] = "forward"
  /\ LET kind == uttering.kind
     IN /\ CASE kind = "intro" ->
                  /\ browser_out' = browser_out \o
                       <<CallTurnMessage("agent", uttering.text), CallStatusMessage("in_call")>>
                  /\ UNCHANGED <<conversation_log, turn_count>>
             [] kind = "nudge" ->
                  /\ browser_out' = Append(browser_out, CallTurnMessage("agent", uttering.text))
                  /\ UNCHANGED <<conversation_log, turn_count>>
             [] OTHER ->
                  /\ turn_count' = turn_count + 1
                  /\ conversation_log' = LogAppend(conversation_log, "agent", uttering.text)
                  /\ browser_out' = Append(browser_out, CallTurnMessage("agent", uttering.text))
        /\ IF LeavesLoop(kind)
           THEN /\ Goto("completed")
                /\ status' = [status EXCEPT ![1] = COMPLETED]
                /\ exit_path' = [exit_path EXCEPT ![1] = "end_call"]
           ELSE /\ Goto("listen")
                /\ UNCHANGED <<status, exit_path>>
  /\ agent_action' = [agent_action EXCEPT ![1] = "none"]
  /\ UNCHANGED <<session, registries, streams, queues, call_state, twilio_sid, polls,
                 silent_rounds, segmenter, vendor_call, stream, errors, end_calls,
                 sender, timed, pure, uttering, vendor_out>>

\* lines 699-727, 754-755: receive_speech returns a turn of speech or nothing;
\* a silent round is counted, the loop ends at the cap, the nudge is logged
TalkListen ==
  /\ UNCHANGED sim
  /\ pc[1] = "listen"
  /\ turn_count < MaxTurns
  /\ \E speech \in BOOLEAN :
       IF speech
       THEN /\ silent_rounds' = [silent_rounds EXCEPT ![1] = 0]
            /\ Goto("transcribe")
            /\ UNCHANGED <<status, exit_path, talk>>
       ELSE /\ silent_rounds' = [silent_rounds EXCEPT ![1] = @ + 1]
            /\ IF SilenceCapReached(silent_rounds[1] + 1)
               THEN /\ Goto("completed")
                    /\ status' = [status EXCEPT ![1] = COMPLETED]
                    /\ exit_path' = [exit_path EXCEPT ![1] = "silence_cap"]
                    /\ UNCHANGED talk
               ELSE /\ turn_count' = turn_count + 1
                    /\ conversation_log' = LogAppend(conversation_log, "agent", NudgeText)
                    /\ uttering' = Utterance("nudge", NudgeText)
                    /\ Goto("tts")
                    /\ UNCHANGED <<status, exit_path, browser_out, vendor_out>>
  /\ UNCHANGED <<session, registries, streams, queues, call_state, twilio_sid, polls,
                 agent_action, segmenter, vendor_call, stream, errors, end_calls,
                 sender, timed, pure>>

\* lines 757-783: the turn is transcribed, logged and forwarded; an empty
\* transcript continues the loop; transcribe_audio re-raises its failures
TalkTranscribe ==
  /\ UNCHANGED sim
  /\ pc[1] = "transcribe"
  /\ \E result \in {"text", "empty", "raise"} :
       CASE result = "text" ->
              /\ turn_count' = turn_count + 1
              /\ conversation_log' = LogAppend(conversation_log, "other_party", TranscriptText)
              /\ browser_out' = Append(browser_out, CallTurnMessage("hospital", TranscriptText))
              /\ Goto("decide")
              /\ UNCHANGED <<errors, exit_path>>
         [] result = "empty" ->
              /\ Goto("listen")
              /\ UNCHANGED <<errors, exit_path, conversation_log, turn_count, browser_out>>
         [] result = "raise" ->
              /\ TalkRaise("exception")
              /\ UNCHANGED <<conversation_log, turn_count>>
  /\ UNCHANGED <<session, registries, streams, status, queues, locals, segmenter,
                 vendor_call, stream, end_calls, sender, timed, pure, uttering, vendor_out>>

\* lines 791-806, 824-832: the agent decides; a SPEAK or END_CALL action with
\* a text begins its utterance, every other action goes on to be forwarded
TalkDecide ==
  /\ UNCHANGED sim
  /\ pc[1] = "decide"
  /\ \E action \in DecidedActions :
       /\ agent_action' = [agent_action EXCEPT ![1] = action.action_type]
       /\ IF Spoken(action)
          THEN /\ uttering' = Utterance(action.action_type, DisplayText(action))
               /\ Goto("tts")
          ELSE /\ uttering' = [Utterance(action.action_type, DisplayText(action))
                                 EXCEPT !.tts = "skipped"]
               /\ Goto("forward")
  /\ UNCHANGED <<session, registries, streams, status, queues, call_state, twilio_sid,
                 polls, silent_rounds, segmenter, vendor_call, stream, history,
                 sender, timed, pure, conversation_log, turn_count, browser_out,
                 vendor_out>>

\* lines 856-874: "call_complete" is reported; the SMS summary is sent or not
TalkComplete ==
  /\ UNCHANGED sim
  /\ pc[1] = "completed"
  /\ \E sms_sid \in BOOLEAN :
       browser_out' = browser_out \o
         (IF sms_sid
          THEN <<CallCompleteMessage(turn_count), CallStatusMessage("sms_sent")>>
          ELSE <<CallCompleteMessage(turn_count)>>)
  /\ fn_out' = <<SmsSummary(turn_count, conversation_log)>>
  /\ Goto("teardown")
  /\ UNCHANGED <<session, registries, streams, status, queues, locals, segmenter,
                 vendor_call, stream, history, sender, timed, fn_arg,
                 conversation_log, turn_count, uttering, vendor_out>>

\* lines 881-888: the finally block and _end_twilio_call
TalkTeardown ==
  /\ UNCHANGED sim
  /\ pc[1] = "teardown"
  /\ PopRegistrations
  /\ status' = [status EXCEPT ![1] = FinalStatus(@)]
  /\ IF twilio_sid[1] # 0
     THEN /\ end_calls' = [end_calls EXCEPT ![1] = @ + 1]
          /\ \E ok \in BOOLEAN :
               vendor_call' = [vendor_call EXCEPT ![1] = IF ok THEN "ended" ELSE @]
     ELSE UNCHANGED <<end_calls, vendor_call>>
  /\ Goto("done")
  /\ UNCHANGED <<session, streams, queues, locals, segmenter, stream, exit_path,
                 errors, bench>>

\* twilio_media_stream, lines 448-452: the stream of the call sends "start"
TalkStreamStart ==
  /\ UNCHANGED sim
  /\ vendor_call[1] = "live"
  /\ stream[1] = "idle"
  /\ stream' = [stream EXCEPT ![1] = "started"]
  /\ twilio_streams' = 1
  /\ twilio_stream_sids' = 1
  /\ UNCHANGED <<session, registries, status, queues, pc, locals, segmenter,
                 vendor_call, history, bench>>

\* twilio_media_stream, lines 463-477: the stream stops or drops
TalkStreamEnd ==
  /\ UNCHANGED sim
  /\ stream[1] = "started"
  /\ stream' = [stream EXCEPT ![1] = "closed"]
  /\ twilio_streams' = 0
  /\ twilio_stream_sids' = 0
  /\ UNCHANGED <<session, registries, status, queues, pc, locals, segmenter,
                 vendor_call, history, bench>>

NextConversation ==
  \/ TalkBegin
  \/ TalkVendorCreateCall
  \/ TalkDialReturn
  \/ TalkDialFail
  \/ TalkPollStream
  \/ TalkSynthesize
  \/ TalkSendAudio
  \/ TalkForward
  \/ TalkListen
  \/ TalkTranscribe
  \/ TalkDecide
  \/ TalkComplete
  \/ TalkTeardown
  \/ TalkStreamStart
  \/ TalkStreamEnd

SpecConversation == InitConversation /\ [][NextConversation]_vars

(***************************************************************************)
(* _sarvam_tts (tts_service.py 50-131): the synthesis request is tried     *)
(* with each model of MODELS in turn.  fn_arg holds the speaker argument   *)
(* and what the vendor will answer to a request for each model; fn_out     *)
(* holds the requests made, last_error and the result of the call.         *)
(***************************************************************************)
\* a service that knows one model only
MODELS_v3_only == <<"bulbul:v3">>

\* line 47: _MODELS = ["bulbul:v3", "bulbul:v2"]
MODELS == <<"bulbul:v3", "bulbul:v2">>

\* line 44
V2_FALLBACK_SPEAKER == "manisha"

\* config.py 19: settings.sarvam_tts_speaker
SARVAM_TTS_SPEAKER == "shubh"

\* the speaker argument: None, an empty string or a v3 voice
SpeakerInputs == {None, Str(""), Str("priya")}

\* what the vendor does with one request: no connection, an error status, a
\* body that is not JSON, JSON without "audios", an empty "audios" list, a
\* first entry that is not base64, an empty first entry, or encoded audio
TtsAnswers ==
  {"unreachable", "status_500", "not_json", "no_audios_key", "empty_audios",
   "bad_base64", "empty_string", "audio"}

\* line 77: speaker or settings.sarvam_tts_speaker
ChosenSpeaker(speaker) ==
  IF IsNone(speaker) \/ speaker = Str("") THEN SARVAM_TTS_SPEAKER ELSE speaker.str

\* lines 87-100: the payload of the request for one model
TtsRequest(model, speaker) ==
  [model |-> model,
   speaker |-> IF model = "bulbul:v2" THEN V2_FALLBACK_SPEAKER ELSE ChosenSpeaker(speaker)]

\* the audio the vendor synthesizes for a request
VoiceOf(request) == [voice |-> request.speaker, model |-> request.model, len |-> 1]

\* lines 102-129: one attempt; every Exception raised in it is caught
AttemptOutcome(answer, request) ==
  CASE answer = "unreachable" -> [ok |-> FALSE, error |-> [type |-> "ConnectError", model |-> request.model]]
    [] answer = "status_500" -> [ok |-> FALSE, error |-> [type |-> "HTTPStatusError", model |-> request.model]]
    [] answer = "not_json" -> [ok |-> FALSE, error |-> [type |-> "JSONDecodeError", model |-> request.model]]
    [] answer \in {"no_audios_key", "empty_audios"} ->
         [ok |-> FALSE, error |-> [type |-> "ValueError", model |-> request.model]]
    [] answer = "bad_base64" -> [ok |-> FALSE, error |-> [type |-> "binascii.Error", model |-> request.model]]
    [] answer = "empty_string" ->
         [ok |-> TRUE, audio |-> [voice |-> request.speaker, model |-> request.model, len |-> 0]]
    [] answer = "audio" -> [ok |-> TRUE, audio |-> VoiceOf(request)]

TtsRunning == [kind |-> "running"]

InitTts ==
  /\ MainInit
  /\ TalkIdle
  /\ SimIdle
  /\ SenderIdle
  /\ TimedIdle
  /\ fn_arg \in [speaker : SpeakerInputs,
                 answer : [{"bulbul:v3", "bulbul:v2"} -> TtsAnswers]]
  /\ fn_out = [requests |-> <<>>, last_error |-> None, result |-> TtsRunning]

\* lines 86-129: one iteration of "for model in _MODELS"
TtsAttempt ==
  /\ fn_out.result = TtsRunning
  /\ Len(fn_out.requests) < Len(MODELS)
  /\ LET model == MODELS[Len(fn_out.requests) + 1]
         request == TtsRequest(model, fn_arg.speaker)
         outcome == AttemptOutcome(fn_arg.answer[model], request)
     IN fn_out' =
          [requests |-> Append(fn_out.requests, request),
           last_error |-> IF outcome.ok THEN fn_out.last_error ELSE outcome.error,
           result |-> IF outcome.ok
                      THEN [kind |-> "returned", audio |-> outcome.audio]
                      ELSE fn_out.result]
  /\ UNCHANGED <<mainvars, talk, sim, sender, timed, fn_arg>>

\* line 131: raise last_error or ValueError(...)
TtsRaise ==
  /\ fn_out.result = TtsRunning
  /\ Len(fn_out.requests) = Len(MODELS)
  /\ fn_out' = [fn_out EXCEPT !.result =
                  [kind |-> "raised",
                   error |-> IF IsNone(fn_out.last_error)
                             THEN [type |-> "ValueError", model |-> "none"]
                             ELSE fn_out.last_error]]
  /\ UNCHANGED <<mainvars, talk, sim, sender, timed, fn_arg>>

NextTts == TtsAttempt \/ TtsRaise

SpecTts == InitTts /\ [][NextTts]_vars

(***************************************************************************)
(* The simulated call: _run_call_simulated (backend main.py 965-1129) and  *)
(* handle_call of the hospital agent (hospital_agent/main.py 90-186) talk  *)
(* over one WebSocket.  sim holds the await point of each end, the frames  *)
(* in flight in each direction (to_b, to_h), the number of hospital turns  *)
(* sent (h_sent), the turn the backend is answering (b_heard), the frames  *)
(* the backend has still to send for its action (b_pending) and, for the   *)
(* last caller frame the hospital consumed, the turn it answered and the   *)
(* turn the hospital had sent by then (h_last).                            *)
(***************************************************************************)
\* number of turns the hospital agent generates in one call
MaxSimTurns == 3

\* hospital_agent/main.py 130-133: the fields read from generate_turn's result
HospitalTurns ==
  [expects : {"speech", "dtmf", "none"}, hold : BOOLEAN, call_should_end : BOOLEAN]

\* the actions of the action agent: a type, and whether speech_text is set
SimActions == [action_type : ActionTypes, speech_text : BOOLEAN]

\* hospital_agent/main.py 142-148
HospitalSpeech(k, turn) ==
  [type |-> "hospital_speech", k |-> k, expects |-> turn.expects,
   call_ended |-> turn.call_should_end]

\* a frame of the caller; re is the hospital turn it answers
CallerFrame(type, re) == [type |-> type, re |-> re]

\* the close frame a side receives when the other side has left the socket
SocketClosed == [type |-> "closed", re |-> 0]

\* a backend that stays quiet while it waits
CallerFrames_quiet_wait(action, re) ==
  CASE action.action_type = "speak" -> <<CallerFrame("caller_speech", re)>>
    [] action.action_type = "dtmf" -> <<CallerFrame("caller_dtmf", re)>>
    [] action.action_type = "end_call" ->
         (IF action.speech_text THEN <<CallerFrame("caller_speech", re)>> ELSE <<>>)
           \o <<CallerFrame("call_end", re)>>
    [] action.action_type = "wait" -> <<>>

\* backend main.py 1104-1128: the frames sent to the hospital agent for an action
CallerFrames(action, re) ==
  CASE action.action_type = "speak" -> <<CallerFrame("caller_speech", re)>>
    [] action.action_type = "dtmf" -> <<CallerFrame("caller_dtmf", re)>>
    [] action.action_type = "end_call" ->
         (IF action.speech_text THEN <<CallerFrame("caller_speech", re)>> ELSE <<>>)
           \o <<CallerFrame("call_end", re)>>
    [] action.action_type = "wait" -> <<CallerFrame("caller_speech", re)>>

\* hospital_agent/main.py 152-166: what the hospital does after sending a turn
AfterTurn(turn) ==
  IF turn.call_should_end THEN "ended"
  ELSE IF turn.hold THEN "generate"
  ELSE IF turn.expects = "none" THEN "generate"
  ELSE "await_caller"

\* backend main.py 1022-1026: what the backend does with a hospital turn
AfterSpeech(msg) ==
  IF msg.call_ended THEN "ended"
  ELSE IF msg.expects = "none" THEN "await_hospital"
  ELSE "respond"

\* the hospital agent has accepted the socket; the backend is about to connect
InitSim ==
  /\ MainInit
  /\ SenderIdle
  /\ TimedIdle
  /\ PureIdle
  /\ TalkIdle
  /\ sim = [h_pc |-> "await_start", b_pc |-> "connect", to_b |-> <<>>, to_h |-> <<>>,
            h_sent |-> 0, b_heard |-> 0, b_pending |-> <<>>,
            h_last |-> [re |-> 0, after |-> 0]]

\* the backend leaves the "async with websockets.connect" block
BackendLeaves(s) == [s EXCEPT !.b_pc = "ended", !.b_pending = <<>>,
                              !.to_h = Append(@, SocketClosed)]

\* handle_call returns and the server closes the socket
HospitalLeaves(s) == [s EXCEPT !.h_pc = "ended", !.to_b = Append(@, SocketClosed)]

\* backend main.py 965-977: connect, send "call_start"
SimConnect ==
  /\ sim.b_pc = "connect"
  /\ sim' = [sim EXCEPT !.b_pc = "await_hospital",
                        !.to_h = Append(@, CallerFrame("call_start", 0))]
  /\ UNCHANGED <<mainvars, talk, sender, timed, pure>>

\* hospital_agent/main.py 111-122: the first frame must be "call_start"
SimHospitalStart ==
  /\ sim.h_pc = "await_start"
  /\ sim.to_h # <<>>
  /\ LET msg == Head(sim.to_h)
         taken == [sim EXCEPT !.to_h = Tail(@)]
     IN sim' = IF msg.type = "call_start"
               THEN [taken EXCEPT !.h_pc = "generate"]
               ELSE HospitalLeaves(taken)
  /\ UNCHANGED <<mainvars, talk, sender, timed, pure>>

\* hospital_agent/main.py 127-163: a turn is generated and sent; the send
\* raises when the backend has left
SimHospitalTurn ==
  /\ sim.h_pc = "generate"
  /\ sim.h_sent < MaxSimTurns
  /\ \E turn \in HospitalTurns, raises \in BOOLEAN :
       IF sim.b_pc = "ended" /\ raises
       THEN sim' = HospitalLeaves(sim)
       ELSE LET k == sim.h_sent + 1
                sent == [sim EXCEPT !.h_sent = k,
                                    !.to_b = Append(@, HospitalSpeech(k, turn))]
            IN sim' = IF AfterTurn(turn) = "ended"
                      THEN HospitalLeaves(sent)
                      ELSE [sent EXCEPT !.h_pc = AfterTurn(turn)]
  /\ UNCHANGED <<mainvars, talk, sender, timed, pure>>

\* hospital_agent/main.py 165-185: the hospital waits for the caller's frame
SimHospitalRecv ==
  /\ sim.h_pc = "await_caller"
  /\ sim.to_h # <<>>
  /\ LET msg == Head(sim.to_h)
         taken == [sim EXCEPT !.to_h = Tail(@)]
         heard == [taken EXCEPT !.h_last = [re |-> msg.re, after |-> sim.h_sent]]
     IN sim' = IF msg.type = "closed" THEN HospitalLeaves(taken)
               ELSE IF msg.type = "call_end" THEN HospitalLeaves(heard)
               ELSE [heard EXCEPT !.h_pc = "generate"]
  /\ UNCHANGED <<mainvars, talk, sender, timed, pure>>

\* backend main.py 979-1026: the backend waits for the next hospital frame
SimBackendRecv ==
  /\ sim.b_pc = "await_hospital"
  /\ sim.to_b # <<>>
  /\ LET msg == Head(sim.to_b)
         taken == [sim EXCEPT !.to_b = Tail(@)]
     IN sim' = IF msg.type = "closed"
               THEN BackendLeaves(taken)
               ELSE IF AfterSpeech(msg) = "ended"
               THEN BackendLeaves([taken EXCEPT !.b_heard = msg.k])
               ELSE [taken EXCEPT !.b_heard = msg.k, !.b_pc = AfterSpeech(msg)]
  /\ UNCHANGED <<mainvars, talk, sender, timed, pure>>

\* one hospital_ws.send of the backend; the backend leaves after "call_end"
\* (line 1123) and when the send raises because the hospital has left
SendCallerFrames(s, frames, raises) ==
  IF frames = <<>>
  THEN [s EXCEPT !.b_pc = "await_hospital"]
  ELSE IF raises
  THEN BackendLeaves(s)
  ELSE LET sent == [s EXCEPT !.to_h = Append(@, Head(frames)), !.b_pending = Tail(frames)]
       IN IF Len(frames) > 1 THEN [sent EXCEPT !.b_pc = "send_more"]
          ELSE IF Head(frames).type = "call_end" THEN BackendLeaves(sent)
          ELSE [sent EXCEPT !.b_pc = "await_hospital"]

\* backend main.py 1027-1128: classification and action (an exception ends
\* the call), then the first frame of the action is sent
SimBackendRespond ==
  /\ sim.b_pc = "respond"
  /\ \/ sim' = BackendLeaves(sim)
     \/ \E action \in SimActions, raises \in BOOLEAN :
          /\ raises => sim.h_pc = "ended"
          /\ sim' = SendCallerFrames(sim, CallerFrames(action, sim.b_heard), raises)
  /\ UNCHANGED <<mainvars, talk, sender, timed, pure>>

\* backend main.py 1118-1123: "call_end" follows the farewell
SimBackendSendMore ==
  /\ sim.b_pc = "send_more"
  /\ \E raises \in BOOLEAN :
       /\ raises => sim.h_pc = "ended"
       /\ sim' = SendCallerFrames(sim, sim.b_pending, raises)
  /\ UNCHANGED <<mainvars, talk, sender, timed, pure>>

NextSim ==
  \/ SimConnect
  \/ SimHospitalStart
  \/ SimHospitalTurn
  \/ SimHospitalRecv
  \/ SimBackendRecv
  \/ SimBackendRespond
  \/ SimBackendSendMore

SpecSim == InitSim /\ [][NextSim]_vars

(***************************************************************************)
(* C11: on a connected stream the first message written for an utterance   *)
(* is a clear message; it is followed by media messages, in order, each    *)
(* carrying at most CHUNK_SIZE (640) bytes, whose payloads concatenated     *)
(* are the utterance; and the call returns only after a pacing sleep of    *)
(* len/8000 + 0.3 s that follows the last message.                         *)
(***************************************************************************)
RECURSIVE PayloadBytes(_)
PayloadBytes(msgs) ==
  IF msgs = <<>> THEN <<>>
  ELSE b64decode(Head(msgs).payload) \o PayloadBytes(Tail(msgs))

IsPrefix(a, b) == Len(a) <= Len(b) /\ a = SubSeq(b, 1, Len(a))

C11_ClearThenFramedAudio ==
  /\ (ws = 0 \/ stream_sid = 0) => ws_out = <<>> /\ slept = 0
  /\ ws_out # <<>> =>
       /\ ws_out[1] = ClearMessage(stream_sid)
       /\ \A k \in 2..Len(ws_out) :
            /\ ws_out[k].event = "media"
            /\ ws_out[k].streamSid = stream_sid
            /\ Len(b64decode(ws_out[k].payload)) \in 1..CHUNK_SIZE
       /\ IsPrefix(PayloadBytes(Tail(ws_out)), mulaw_bytes)
  /\ slept # 0 => send_pc = "returned"
  /\ (send_pc = "returned" /\ ws_out # <<>>) =>
       slept = PacingDelay(Len(mulaw_bytes))
  /\ (send_pc \in {"sleep", "returned"} /\ ws_open /\ ws # 0 /\ stream_sid # 0) =>
       /\ ws_out # <<>>
       /\ PayloadBytes(Tail(ws_out)) = mulaw_bytes

\* an utterance of three media messages was sent to the end and paced
C11_Witness ==
  /\ send_pc = "returned"
  /\ ws_open
  /\ Len(ws_out) = 4
  /\ slept = PacingDelay(MaxUtterance)

(***************************************************************************)
(* Vocabulary of the properties                                            *)
(***************************************************************************)
\* await points inside the conversation loop (lines 699-852)
LoopPcs == {"listen", "recv", "nudge", "transcribe", "decide", "respond"}

\* await points after the loop was left or never entered
AfterLoopPcs == {"completed", "teardown", "end_call", "done"}

\* the task ran its finally block to the end
Finished(t) == pc[t] = "done" /\ exit_path[t] # "never_ran"

\* the task is the latest one started for the session
LastTask(t) == \A u \in Tasks : u > t => pc[u] = "none"

SentinelObserved(t) == \E i \in 1..Len(consumed[t]) : IsNone(consumed[t][i])

(***************************************************************************)
(* C1: when receive_speech has returned "no speech" for MAX_SILENT_ROUNDS  *)
(* (3) consecutive rounds the loop is left, the status of the session is   *)
(* COMPLETED, and the task is at no listen, filler-prompt or decision      *)
(* step any more.                                                          *)
(***************************************************************************)
C1_SilenceCapCompletes ==
  \A t \in Tasks :
    /\ silent_rounds[t] >= MAX_SILENT_ROUNDS => exit_path[t] = "silence_cap"
    /\ exit_path[t] = "silence_cap" =>
         /\ pc[t] \in AfterLoopPcs
         /\ status[call_state[t]] = COMPLETED

C1_Witness ==
  \E t \in Tasks : exit_path[t] = "silence_cap" /\ pc[t] = "done"

(***************************************************************************)
(* C2: COMPLETED and FAILED are terminal.  Once the status of a session is *)
(* COMPLETED or FAILED, no step changes that status and no task enters the *)
(* conversation loop for the session.                                      *)
(***************************************************************************)
C2_TerminalIsFinal ==
  [][\A c \in CallStates :
       status[c] \in {COMPLETED, FAILED} =>
         /\ status'[c] = status[c]
         /\ \A t \in Tasks :
              call_state'[t] = c => ~(pc[t] = "intro" /\ pc'[t] = "listen")]_vars

(***************************************************************************)
(* C3: when a call reaches its terminal status the call_id is removed from *)
(* call_tasks, audio_queues and twilio_call_sids, the queue of the call is *)
(* out of reach of every writer, _end_twilio_call is invoked exactly once  *)
(* if a call sid was obtained (and never otherwise), and a failing         *)
(* _end_twilio_call leaves the terminal status as it is.                   *)
(***************************************************************************)
C3_TornDown ==
  \A t \in Tasks :
    /\ (pc[t] \in {"end_call", "done"} /\ exit_path[t] # "never_ran") =>
         /\ call_tasks # t
         /\ audio_queues # t
         /\ twilio_call_sids # t
         /\ queue[t] = <<>>
         /\ status[call_state[t]] \in {COMPLETED, FAILED}
    /\ end_calls[t] = IF pc[t] = "done" /\ twilio_sid[t] # 0 THEN 1 ELSE 0

C3_TeardownStep ==
  \A t \in Tasks :
    /\ (pc[t] = "teardown" /\ pc'[t] # "teardown") =>
         /\ call_tasks' = 0
         /\ audio_queues' = 0
         /\ twilio_call_sids' = 0
    /\ (pc[t] = "end_call" /\ pc'[t] = "done") => status' = status

C4_HandshakeTimeout ==
  \A t \in Tasks :
    exit_path[t] = "timeout" =>
      /\ pc[t] \in {"teardown", "end_call", "done"}
      /\ Len(errors[t]) = 1
      /\ "stream_url" \in errors[t][1].names
      /\ pc[t] # "teardown" => status[call_state[t]] = FAILED
      /\ pc[t] = "done" => end_calls[t] = 1

(***************************************************************************)
(* C5: a call that ends FAILED (placement error, stream timeout, exception *)
(* in the loop, or cancellation of the task) has sent exactly one "error"  *)
(* message to the browser; a call that ends COMPLETED has sent none.       *)
(***************************************************************************)
C5_OneErrorPerFailure ==
  \A t \in Tasks :
    (Finished(t) /\ LastTask(t)) =>
      /\ status[call_state[t]] = FAILED => Len(errors[t]) = 1
      /\ status[call_state[t]] = COMPLETED => Len(errors[t]) = 0

(***************************************************************************)
(* C6: at the end of a call the recorded status reflects the outcome: it   *)
(* is COMPLETED exactly when the loop ended by the silence cap or by an    *)
(* end_call action, and FAILED otherwise.                                  *)
(***************************************************************************)
C6_StatusReflectsOutcome ==
  \A t \in Tasks :
    (Finished(t) /\ LastTask(t)) =>
      status[call_state[t]] =
        IF exit_path[t] \in {"silence_cap", "end_call"} THEN COMPLETED ELSE FAILED

(***************************************************************************)
(* C7: the end-of-stream sentinel is one-shot: once receive_speech has     *)
(* taken the sentinel from the queue of a call, receive_speech is never    *)
(* called on that queue again.                                             *)
(***************************************************************************)
C7_SentinelOneShot ==
  [][\A t \in Tasks :
       SentinelObserved(t) => ~(pc[t] = "listen" /\ pc'[t] = "recv")]_vars

(***************************************************************************)
(* C8: the sentinel is the last item of a queue: no audio chunk is put on  *)
(* a queue after the sentinel was put on it.                               *)
(***************************************************************************)
C8_SentinelIsLast ==
  \A t \in Tasks :
    \A i, j \in 1..Len(arrived[t]) :
      (i < j /\ IsNone(arrived[t][i])) => IsNone(arrived[t][j])

(***************************************************************************)
(* C9: the items of a queue reach receive_speech in the order they were    *)
(* put, none lost, none twice; and turns are sequential: at most one task  *)
(* of the session is inside the conversation loop, and when it listens no  *)
(* decision of an earlier turn is still being dispatched.                  *)
(***************************************************************************)
C9_OrderedAndSequential ==
  /\ \A t \in Tasks : consumed[t] \o queue[t] = arrived[t]
  /\ Cardinality({t \in Tasks : pc[t] \in LoopPcs}) <= 1
  /\ \A t \in Tasks : pc[t] \in {"listen", "recv"} => agent_action[t] = "none"

\* receive_speech has taken two different chunks from one queue
C9_Witness ==
  \E t \in Tasks :
    /\ Len(consumed[t]) >= 2
    /\ ~IsNone(consumed[t][1])
    /\ ~IsNone(consumed[t][2])
    /\ consumed[t][1] # consumed[t][2]

(***************************************************************************)
(* C10: every chunk put on a queue is the 16-bit PCM decoding              *)
(* (mulaw_to_pcm_bytes) of the mu-law payload of a media event.            *)
(***************************************************************************)
C10_QueueHoldsPcm ==
  \A t \in Tasks :
    \A i \in 1..Len(arrived[t]) :
      ~IsNone(arrived[t][i]) =>
        \E payload \in MediaPayloads :
          arrived[t][i] = mulaw_to_pcm_bytes(b64decode(payload))

(***************************************************************************)
(* C12: when a loud chunk is followed by quiet chunks that span            *)
(* SILENCE_DURATION, receive_speech returns exactly the bytes buffered     *)
(* before the chunk at which the silence was confirmed, that chunk not     *)
(* included.                                                               *)
(***************************************************************************)
C12_TurnExcludesConfirmingChunk ==
  (seg_pc = "returned" /\ seg_exit = "silence_at_chunk") =>
    seg_result = SubSeq(seg_fed, 1, Len(seg_fed) - 1)

(***************************************************************************)
(* C13: once speech has been detected, the absence of further packets is   *)
(* treated like silent packets: when no chunk has arrived for              *)
(* SILENCE_DURATION (checked at each poll timeout) the call has returned.  *)
(***************************************************************************)
C13_AbsenceCountsAsSilence ==
  (seg_pc = "waiting" /\ seg_speech_detected) => seg_idle_polls < IdlePollsCap

(***************************************************************************)
(* C14: the sentinel ends the wait at once, nothing is read from the queue *)
(* after it, and the value returned is the whole buffer when speech was    *)
(* detected and at least MIN_SPEECH_BYTES were buffered, empty otherwise.  *)
(***************************************************************************)
ChunksBefore(items) == SubSeq(items, 1, Len(items) - 1)

AnyLoud(chunks) ==
  \E i \in 1..Len(chunks) : EnergyAbove(chunks[i], ENERGY_THRESHOLD)

C14_SentinelEndsTheWait ==
  /\ \A i \in 1..Len(seg_fed) :
       IsNone(seg_fed[i]) =>
         /\ i = Len(seg_fed)
         /\ seg_pc = "returned"
         /\ seg_exit = "sentinel"
  /\ seg_exit = "sentinel" =>
       /\ seg_pc = "returned"
       /\ IsNone(seg_fed[Len(seg_fed)])
       /\ seg_result =
            IF /\ AnyLoud(ChunksBefore(seg_fed))
               /\ TotalLen(ChunksBefore(seg_fed)) >= MIN_SPEECH_BYTES
            THEN ChunksBefore(seg_fed)
            ELSE <<>>

\* the sentinel directly follows a loud burst shorter than MIN_SPEECH_BYTES
C14_Witness ==
  /\ seg_pc = "returned"
  /\ seg_fed = <<LoudChunk, None>>
  /\ seg_result = <<>>

(***************************************************************************)
(* C15: receive_speech returns once the overall timeout has elapsed,       *)
(* whatever arrives: it never waits at or past the deadline, and it has    *)
(* returned less than one poll interval after it.  When every chunk it     *)
(* received was below the energy threshold it returns empty bytes, however *)
(* many bytes were buffered.                                               *)
(***************************************************************************)
C15_BoundedByTimeout ==
  /\ seg_pc = "waiting" => seg_now < Deadline
  /\ seg_pc = "returned" => seg_now < Deadline + POLL_INTERVAL
  /\ (seg_pc = "returned" /\ ~AnyLoud(seg_audio_buffer)) => seg_result = <<>>

\* the deadline ended a call that had buffered MIN_SPEECH_BYTES of silence
C15_Witness ==
  /\ seg_pc = "returned"
  /\ seg_exit = "deadline"
  /\ seg_now >= Deadline
  /\ TotalLen(seg_audio_buffer) >= MIN_SPEECH_BYTES
  /\ ~AnyLoud(seg_audio_buffer)
  /\ seg_result = <<>>

(***************************************************************************)
(* C16: for every mu-law byte b, the decoded sample lies in the signed     *)
(* 16-bit range, and encoding it again gives a byte that decodes to the    *)
(* same sample as b.                                                       *)
(***************************************************************************)
C16_CodecRoundTrip ==
  /\ Len(fn_out) >= 1 =>
       /\ fn_out[1] = mulaw_to_linear(fn_arg)
       /\ fn_out[1] \in -32768..32767
  /\ Len(fn_out) = 2 =>
       /\ fn_out[2] \in 0..255
       /\ mulaw_to_linear(fn_out[2]) = fn_out[1]

\* the one byte that does not come back as itself: negative zero
C16_Witness == fn_arg = 127 /\ fn_out = <<0, 255>>

(***************************************************************************)
(* C17: DTMF synthesis accepts exactly the twelve keys 0-9, * and #.  For  *)
(* any other string both generators log the unknown digit and return no    *)
(* bytes.  For a key the PCM output has 2 * (int(rate * duration) +        *)
(* int(rate * gap)) bytes, its gap samples are all zero, and the mu-law    *)
(* output has half as many bytes.                                          *)
(***************************************************************************)
TwelveKeys == {"0", "1", "2", "3", "4", "5", "6", "7", "8", "9", "*", "#"}

C17_DtmfKeysAndLengths ==
  \A n \in 1..Len(fn_out) :
    LET out == fn_out[n]
        tone == (SAMPLE_RATE * fn_arg.times[1]) \div 1000
        gap == (SAMPLE_RATE * fn_arg.times[2]) \div 1000
    IN IF fn_arg.digit \in TwelveKeys
       THEN /\ out.warning = "none"
            /\ Len(out.bytes) = IF n = 1 THEN 2 * (tone + gap) ELSE tone + gap
            /\ n = 1 => \A k \in (2 * tone + 1)..(2 * (tone + gap)) : out.bytes[k] = 0
       ELSE /\ out.warning = "unknown_digit"
            /\ out.bytes = <<>>

\* the key 7 with the default durations: 4800 bytes of PCM, 2400 of mu-law
C17_Witness ==
  /\ fn_arg = [digit |-> "7", times |-> <<250, 50>>]
  /\ Len(fn_out) = 2
  /\ Len(fn_out[1].bytes) = 4800
  /\ Len(fn_out[2].bytes) = 2400

(***************************************************************************)
(* C18: in a real call, when the decision is dtmf with digits d, the audio *)
(* sent on the vendor stream is the synthesized DTMF tones of d encoded to *)
(* mu-law, and no speech text is synthesized for the turn.                 *)
(***************************************************************************)
\* the tones of the digits, one after the other, with the default durations
RECURSIVE DtmfAudio(_)
DtmfAudio(digits) ==
  IF digits = <<>> THEN <<>>
  ELSE generate_dtmf_tone_mulaw(Head(digits), 250, 50).bytes \o DtmfAudio(Tail(digits))

\* the audio bytes in the media messages sent so far
SentAudio == PayloadBytes(SelectSeq(ws_out, LAMBDA m : m.event = "media"))

C18_DtmfTonesSent ==
  (Len(fn_out) = 3 /\ fn_out[1].action_type = "dtmf" /\ ~IsNone(fn_out[1].dtmf_digits)) =>
    /\ IsNone(fn_out[2].spoken)
    /\ SentAudio = DtmfAudio(fn_out[1].dtmf_digits.str)

(***************************************************************************)
(* C19: the decision always yields one of the four action types; when the  *)
(* model call fails, the reply is not JSON, or action_type is missing or   *)
(* not one of the four, the action is speak with a repeat prompt as text.  *)
(***************************************************************************)
RepeatPrompts == {Str("Could you please repeat that?"), Str("I am sorry, could you repeat that?")}

\* the reply names none of the four action types
NoKnownActionType(reply) ==
  \/ reply.kind # "json"
  \/ reply.action_type \notin {Str(a) : a \in ActionTypes}

C19_SafeDefaultDecision ==
  Len(fn_out) >= 1 =>
    /\ fn_out[1].action_type \in ActionTypes
    /\ NoKnownActionType(fn_arg.reply) =>
         /\ fn_out[1].action_type = "speak"
         /\ fn_out[1].speech_text \in RepeatPrompts

(***************************************************************************)
(* C20: a speech-to-text failure on one turn never terminates the call:    *)
(* the turn is treated as empty, no error message is sent, the task stays  *)
(* in the conversation loop and proceeds to the next listen.               *)
(***************************************************************************)
C20_SttFailureSkipsTurn ==
  [][\A t \in Tasks :
       (pc[t] = "transcribe" /\ pc'[t] # "transcribe" /\ exit_path'[t] # "cancelled") =>
         /\ pc'[t] \in {"listen", "decide"}
         /\ errors'[t] = errors[t]
         /\ exit_path'[t] = "none"]_vars

(***************************************************************************)
(* C23: the vendor WebSocket handle of a session is not retained after     *)
(* teardown: once the call task has finished its teardown, twilio_streams  *)
(* and twilio_stream_sids hold no entry for the session id.                *)
(***************************************************************************)
C23_StreamHandleReleased ==
  \A t \in Tasks :
    (Finished(t) /\ LastTask(t)) => twilio_streams = 0 /\ twilio_stream_sids = 0

(***************************************************************************)
(* C24: a call-placement failure is fatal for the session: the session     *)
(* ends FAILED with one error message for the user, the stream wait and    *)
(* the turn loop are never entered, _end_twilio_call is not attempted (no  *)
(* call sid exists) and the audio queue registration is removed.           *)
(***************************************************************************)
C24_PlaceFailureState ==
  \A t \in Tasks :
    exit_path[t] = "place_error" =>
      /\ pc[t] \in {"teardown", "done"}
      /\ errors[t] = <<ErrorCall>>
      /\ twilio_sid[t] = 0
      /\ end_calls[t] = 0
      /\ polls[t] = 0
      /\ pc[t] = "done" => audio_queues # t

\* the finally block of the failed task leaves the session FAILED
C24_PlaceFailureTeardown ==
  \A t \in Tasks :
    (exit_path[t] = "place_error" /\ pc[t] = "teardown" /\ pc'[t] # "teardown") =>
      /\ pc'[t] = "done"
      /\ audio_queues' = 0
      /\ status'[call_state[t]] = FAILED

C24_PlaceFailureIsFatal == []C24_PlaceFailureState /\ [][C24_PlaceFailureTeardown]_vars

(***************************************************************************)
(* C22: when a session is torn down from outside while its call task runs  *)
(* (the browser disconnects), the turn-loop task is cancelled, the audio   *)
(* queue of the session is closed for writers, and the vendor is asked to  *)
(* end the call that was placed for the task.                              *)
(***************************************************************************)
C22_OutsideTeardown ==
  \A t \in Tasks :
    exit_path[t] = "cancelled" =>
      /\ pc[t] \in AfterLoopPcs
      /\ audio_queues # t
      /\ (pc[t] = "done" /\ vendor_call[t] # "none") => end_calls[t] = 1

(***************************************************************************)
(* C25: an outbound send failure is not fatal.  If the stream is absent,   *)
(* or the clear message or a media chunk cannot be written,                *)
(* _send_audio_to_twilio writes no further chunk of the utterance and      *)
(* returns; the call task and the status of the session are untouched.     *)
(***************************************************************************)
C25_FailedSendStep ==
  /\ (send_pc = "call" /\ (ws = 0 \/ stream_sid = 0) /\ sender' # sender) =>
       send_pc' = "returned" /\ ws_out' = ws_out
  /\ (send_pc = "clear" /\ ~ws_open /\ sender' # sender) =>
       send_pc' = "returned" /\ ws_out' = ws_out
  /\ (send_pc = "media" /\ ~ws_open /\ sender' # sender) =>
       send_pc' = "sleep" /\ ws_out' = ws_out /\ send_i' = send_i
  /\ ~ws_open => ~ws_open' /\ ws_out' = ws_out
  /\ send_pc = "sleep" => send_pc' \in {"sleep", "returned"}
  /\ send_pc = "returned" => sender' = sender
  /\ mainvars' = mainvars

C25_SendFailureNotFatal == [][C25_FailedSendStep]_vars

\* the socket failed after the clear message and one of three chunks
C25_Witness ==
  /\ send_pc = "returned"
  /\ ~ws_open
  /\ Len(mulaw_bytes) > 2 * CHUNK_SIZE
  /\ Len(ws_out) = 2
  /\ send_i = CHUNK_SIZE

(***************************************************************************)
(* C29: the race between call placement and the stream handshake is        *)
(* resolved in both orders.  Whether the start event of the stream arrives *)
(* before or after the call sid is returned to the call task, the stream   *)
(* is registered for the session, the task finds it connected at its next  *)
(* look, and every media event received while the task's queue exists is   *)
(* put on that queue.                                                      *)
(***************************************************************************)
\* await points between the creation of the queue and the finally block
QueuePcs == {"dial", "wait_stream", "intro", "completed"} \cup LoopPcs

C29_Correlated ==
  \A t \in Tasks :
    /\ pc[t] \in QueuePcs => audio_queues = t
    /\ consumed[t] \o queue[t] = arrived[t]
    /\ (pc[t] \in {"dial", "wait_stream"} /\ stream[t] = "started") =>
         twilio_streams = t /\ twilio_stream_sids = t

\* one look of the stream wait at a connected stream
C29_Detected ==
  \A t \in Tasks :
    (pc[t] = "wait_stream" /\ stream[t] = "started"
       /\ (pc'[t] # pc[t] \/ polls'[t] # polls[t])) =>
      pc'[t] = "intro" \/ exit_path'[t] = "cancelled"

C29_RaceResolved == []C29_Correlated /\ [][C29_Detected]_vars

(***************************************************************************)
(* C28: unknown or malformed vendor stream events are ignored and never    *)
(* fatal: a frame with an unrecognized event name, a frame that is not     *)
(* valid JSON, or a JSON value without the expected fields leaves the      *)
(* stream handler running, the stream registration as it was, and no       *)
(* sentinel on the queue.                                                  *)
(***************************************************************************)
KnownEvents == {Str("connected"), Str("start"), Str("media"), Str("stop")}

Malformed(raw) ==
  \/ ~raw.wellformed
  \/ raw.value.type # "object"
  \/ raw.value.event \notin KnownEvents
  \/ raw.value.event = Str("media") /\
       (raw.value.media = Missing \/ raw.value.media.type # "object"
          \/ raw.value.media.payload = Missing)

C28_MalformedFrameStep ==
  (Len(fn_out') = Len(fn_out) + 1 /\ Malformed(fn_arg[Len(fn_out')])) =>
    /\ stream' = stream
    /\ streams' = streams
    /\ queue' = queue

C28_MalformedFramesIgnored == [][C28_MalformedFrameStep]_vars

(***************************************************************************)
(* C21: a speech-synthesis failure (intro, filler prompt or agent          *)
(* response) aborts only that utterance: no audio of it is written to the  *)
(* vendor stream, no error is reported, the status of the session is not   *)
(* changed by it, the transcript holds the entry of the turn, and the loop *)
(* goes on as it does after a spoken utterance: to the next listen, or,    *)
(* for an END_CALL action, to the completion of the call.                  *)
(***************************************************************************)
C21_TtsFailureStep ==
  /\ (pc[1] = "tts" /\ uttering'.tts = "failed") =>
       /\ pc'[1] = "forward"
       /\ status' = status
       /\ vendor_out' = vendor_out
       /\ browser_out' = browser_out
       /\ errors' = errors
  /\ (pc[1] = "forward" /\ uttering.tts = "failed" /\ pc'[1] # "forward") =>
       /\ vendor_out' = vendor_out
       /\ Len(vendor_out) = uttering.base
       /\ conversation_log' # <<>>
       /\ conversation_log'[Len(conversation_log')] =
            [speaker |-> "agent", text |-> uttering.text]
       /\ errors' = errors
       /\ IF uttering.kind = "end_call"
          THEN pc'[1] = "completed" /\ status'[1] = COMPLETED
          ELSE pc'[1] = "listen" /\ status' = status

C21_TtsFailureAbortsUtterance == [][C21_TtsFailureStep]_vars

\* the synthesis of an agent response failed after the intro had been sent:
\* the loop is listening again
C21_Witness ==
  /\ pc[1] = "listen"
  /\ uttering.kind = "speak"
  /\ uttering.tts = "failed"
  /\ vendor_out = <<IntroText>>
  /\ Len(conversation_log) = 3
  /\ status[1] = IN_PROGRESS

(***************************************************************************)
(* C27: dispatch of the decided action in the real-call loop.  On WAIT no  *)
(* audio is written to the vendor stream and the loop listens again; on    *)
(* END_CALL the speech text is spoken if present and the session becomes   *)
(* COMPLETED without another listen; on SPEAK the loop listens again after *)
(* the utterance.                                                          *)
(***************************************************************************)
\* what was written to the vendor stream for the utterance being forwarded
WrittenForUtterance == SubSeq(vendor_out, uttering.base + 1, Len(vendor_out))

C27_DispatchStep ==
  (pc[1] = "forward" /\ uttering.kind \in ActionTypes /\ pc'[1] # "forward") =>
    /\ vendor_out' = vendor_out
    /\ WrittenForUtterance = IF uttering.sent THEN <<uttering.text>> ELSE <<>>
    /\ uttering.kind = "wait" =>
         /\ uttering.tts = "skipped"
         /\ WrittenForUtterance = <<>>
         /\ pc'[1] = "listen"
         /\ status' = status
    /\ uttering.kind = "end_call" =>
         /\ uttering.text # "" <=> uttering.tts \in {"ok", "failed"}
         /\ uttering.sent => uttering.tts = "ok"
         /\ pc'[1] = "completed"
         /\ status'[1] = COMPLETED
    /\ uttering.kind = "speak" =>
         /\ uttering.text # "" <=> uttering.tts \in {"ok", "failed"}
         /\ uttering.sent => uttering.tts = "ok"
         /\ pc'[1] = "listen"
         /\ status' = status

\* after END_CALL the loop is never at a listen again
C27_NoListenAfterEndCall ==
  exit_path[1] = "end_call" => pc[1] \in AfterLoopPcs /\ status[1] = COMPLETED

C27_ActionDispatch == []C27_NoListenAfterEndCall /\ [][C27_DispatchStep]_vars

\* an END_CALL action whose farewell was written to the vendor stream
C27_Witness ==
  /\ pc[1] = "completed"
  /\ uttering.kind = "end_call"
  /\ uttering.sent
  /\ vendor_out[Len(vendor_out)] = "Hello"
  /\ status[1] = COMPLETED

(***************************************************************************)
(* C30: the transcript of a call is append-only and ordered: no entry of   *)
(* conversation_log is ever removed, modified or reordered, the intro of   *)
(* the agent is its first entry, and the entries are in the order in which *)
(* the turns were forwarded to the browser.                                *)
(***************************************************************************)
\* the texts of the call_turn messages sent to the browser, in order
ForwardedTurns ==
  LET turns == SelectSeq(browser_out, LAMBDA m : m.type = "call_turn")
  IN [k \in 1..Len(turns) |-> turns[k].text]

LoggedTurns == [k \in 1..Len(conversation_log) |-> conversation_log[k].text]

C30_Ordered ==
  /\ conversation_log # <<>> =>
       conversation_log[1] = [speaker |-> "agent", text |-> IntroText]
  /\ Len(conversation_log) = turn_count
  /\ IsPrefix(ForwardedTurns, LoggedTurns)
  /\ Len(LoggedTurns) <= Len(ForwardedTurns) + 1

C30_AppendOnly ==
  \/ conversation_log' = conversation_log
  \/ /\ Len(conversation_log') = Len(conversation_log) + 1
     /\ IsPrefix(conversation_log, conversation_log')

C30_TranscriptAppendOnly == []C30_Ordered /\ [][C30_AppendOnly]_vars

\* intro, the other party, the agent's reply, a filler prompt
C30_Witness ==
  /\ Len(conversation_log) = 4
  /\ conversation_log[2].speaker = "other_party"
  /\ conversation_log[3] = [speaker |-> "agent", text |-> "Hello"]
  /\ conversation_log[4].text = NudgeText

(***************************************************************************)
(* C26: the lifecycle events of a real call are reported in order:         *)
(* "ringing" only after the call placement returned a call sid,            *)
(* "phone_connected" and "in_call" only after the stream of the session    *)
(* was registered as connected, "call_complete" or a terminal error last.  *)
(* The task goes on to the conversation at the first look of the stream    *)
(* wait that finds the stream, at any look up to the bound, and gives up   *)
(* only after the last one.                                                *)
(***************************************************************************)
\* in the registry model: a task that reported "phone_connected" (it left the
\* stream wait for the intro) holds a call sid and the stream of its own call
\* has started
C26_OwnStreamConnected ==
  \A t \in Tasks :
    pc[t] \in {"intro"} \cup LoopPcs =>
      /\ twilio_sid[t] # 0
      /\ stream[t] \in {"started", "closed"}

\* one look of the stream wait at a registered stream ends the wait
C26_FirstLookEnters ==
  \A t \in Tasks :
    (pc[t] = "wait_stream" /\ twilio_streams # 0
       /\ (pc'[t] # pc[t] \/ polls'[t] # polls[t])) =>
      pc'[t] = "intro" \/ exit_path'[t] = "cancelled"

C26_LifecycleOfTheCall == []C26_OwnStreamConnected /\ [][C26_FirstLookEnters]_vars

\* the same for one call per session, over the messages the browser receives
LifecycleTags == {"calling", "ringing", "phone_connected", "in_call", "call_complete", "error"}

TagOf(m) == IF m.type = "call_status" THEN m.status ELSE m.type

\* the lifecycle events reported so far, in order
Lifecycle ==
  LET events == SelectSeq(browser_out, LAMBDA m : TagOf(m) \in LifecycleTags)
  IN [k \in 1..Len(events) |-> TagOf(events[k])]

Stages == <<"calling", "ringing", "phone_connected", "in_call">>

Reported(tag) == \E k \in 1..Len(Lifecycle) : Lifecycle[k] = tag

C26_Ordered ==
  /\ \/ IsPrefix(Lifecycle, Stages)
     \/ /\ Lifecycle # <<>>
        /\ Lifecycle[Len(Lifecycle)] \in {"call_complete", "error"}
        /\ IsPrefix(SubSeq(Lifecycle, 1, Len(Lifecycle) - 1), Stages)
  /\ Reported("ringing") => twilio_sid[1] # 0
  /\ Reported("phone_connected") => stream[1] \in {"started", "closed"}
  /\ Reported("call_complete") => Reported("in_call")

C26_StreamWaitStep ==
  /\ (pc[1] = "wait_stream" /\ twilio_streams # 0 /\ pc' # pc) =>
       /\ pc'[1] = "tts"
       /\ browser_out' = Append(browser_out, CallStatusMessage("phone_connected"))
  /\ (pc[1] = "wait_stream" /\ twilio_streams # 0) => polls' = polls \/ pc' # pc
  /\ (pc[1] = "wait_stream" /\ exit_path'[1] = "timeout") =>
       polls[1] = STREAM_WAIT_SECS /\ twilio_streams = 0

C26_LifecycleInOrder == []C26_Ordered /\ [][C26_StreamWaitStep]_vars

\* a call that went through every stage and completed
C26_Witness ==
  Lifecycle = <<"calling", "ringing", "phone_connected", "in_call", "call_complete">>

(***************************************************************************)
(* C31: the silence-round counter counts consecutive rounds only.  A       *)
(* return of receive_speech with speech sets it to zero, a return without  *)
(* speech adds one, nothing else changes it while the task is in the loop, *)
(* the loop is left by the cap exactly at the step that takes it from      *)
(* MAX_SILENT_ROUNDS - 1 to MAX_SILENT_ROUNDS, and it never exceeds the    *)
(* cap.                                                                    *)
(***************************************************************************)
C31_Bounded ==
  \A t \in Tasks :
    /\ silent_rounds[t] \in 0..MAX_SILENT_ROUNDS
    /\ pc[t] \in LoopPcs => silent_rounds[t] < MAX_SILENT_ROUNDS

C31_CounterStep ==
  \A t \in Tasks :
    /\ (pc[t] = "recv" /\ pc'[t] = "transcribe") => silent_rounds'[t] = 0
    /\ (pc[t] = "recv" /\ pc'[t] = "nudge") =>
         /\ silent_rounds'[t] = silent_rounds[t] + 1
         /\ silent_rounds'[t] < MAX_SILENT_ROUNDS
    /\ (exit_path[t] # "silence_cap" /\ exit_path'[t] = "silence_cap") =>
         /\ pc[t] = "recv"
         /\ silent_rounds[t] = MAX_SILENT_ROUNDS - 1
         /\ silent_rounds'[t] = MAX_SILENT_ROUNDS
    /\ (pc'[t] \in LoopPcs /\ ~(pc[t] = "recv" /\ pc'[t] # "recv")) =>
         silent_rounds'[t] = silent_rounds[t]

C31_ConsecutiveSilentRounds == []C31_Bounded /\ [][C31_CounterStep]_vars

\* the cap ended a call in which a round with a loud chunk (returned as
\* speech, the counter reset) came before the three silent rounds
C31_Witness ==
  \E t \in Tasks :
    /\ exit_path[t] = "silence_cap"
    /\ pc[t] = "completed"
    /\ silent_rounds[t] = MAX_SILENT_ROUNDS
    /\ \E i \in 1..Len(consumed[t]) :
         /\ ~IsNone(consumed[t][i])
         /\ EnergyAbove(consumed[t][i], ENERGY_THRESHOLD)

(***************************************************************************)
(* C32: _sarvam_tts asks for bulbul:v3 first, with the chosen speaker, and *)
(* for bulbul:v2, with the fallback speaker, only if the v3 attempt        *)
(* failed.  It makes at most two attempts, returns the audio of the first  *)
(* attempt that succeeds, and raises the error of the second attempt only  *)
(* when both attempts failed.                                              *)
(***************************************************************************)
AnswerSucceeds(answer) == answer \in {"audio", "empty_string"}

C32_ModelFallback ==
  LET requests == fn_out.requests
      v3_ok == AnswerSucceeds(fn_arg.answer["bulbul:v3"])
      v2_ok == AnswerSucceeds(fn_arg.answer["bulbul:v2"])
  IN /\ Len(requests) <= 2
     /\ Len(requests) >= 1 =>
          /\ requests[1].model = "bulbul:v3"
          /\ requests[1].speaker \in {"shubh", "priya"}
     /\ Len(requests) = 2 =>
          /\ ~v3_ok
          /\ requests[2] = [model |-> "bulbul:v2", speaker |-> "manisha"]
     /\ fn_out.result.kind = "returned" =>
          /\ fn_out.result.audio.model = (IF v3_ok THEN "bulbul:v3" ELSE "bulbul:v2")
          /\ fn_out.result.audio.voice = requests[Len(requests)].speaker
          /\ Len(requests) = (IF v3_ok THEN 1 ELSE 2)
          /\ v3_ok \/ v2_ok
     /\ fn_out.result.kind = "raised" =>
          /\ ~v3_ok /\ ~v2_ok
          /\ Len(requests) = 2
          /\ fn_out.result.error = fn_out.last_error
          /\ fn_out.result.error.model = "bulbul:v2"
     /\ (fn_out.result.kind = "running" /\ Len(requests) = 1) => ~v3_ok

\* the v3 attempt failed and the audio of the v2 attempt was returned
C32_Witness ==
  /\ fn_out.result.kind = "returned"
  /\ Len(fn_out.requests) = 2
  /\ fn_out.result.audio.model = "bulbul:v2"

(***************************************************************************)
(* C33: at most one call task runs per session id at any time.  A task     *)
(* runs from its creation by start_call until its coroutine has returned   *)
(* from the finally block; start_call creates a task only when no task is  *)
(* registered for the session.                                             *)
(***************************************************************************)
Running(t) == pc[t] \notin {"none", "done"}

C33_AtMostOneTask ==
  \A t, u \in Tasks : (Running(t) /\ Running(u)) => t = u

C33_CreatedOnlyWhenUnregistered ==
  \A t \in Tasks : (pc[t] = "none" /\ pc'[t] = "created") => (call_tasks = 0 /\ call_tasks' = t)

C33_OneTaskPerSession == []C33_AtMostOneTask /\ [][C33_CreatedOnlyWhenUnregistered]_vars

(***************************************************************************)
(* C34: the live-stream map agrees with the running stream handlers:       *)
(* twilio_streams holds an entry for the session id exactly when some      *)
(* stream handler of the session has received "start" and has not exited,  *)
(* and the entry is the socket of such a handler.                          *)
(***************************************************************************)
C34_StreamMapConsistent ==
  /\ (twilio_streams # 0) <=> (\E h \in Handlers : stream[h] = "started")
  /\ twilio_streams # 0 => stream[twilio_streams] = "started"
  /\ (twilio_stream_sids # 0) <=> (twilio_streams # 0)

(***************************************************************************)
(* C35: after the vendor stream of a call in the conversation loop has     *)
(* ended, the loop eventually terminates and the session reaches a         *)
(* terminal status, provided the external requests return.  Once the task  *)
(* has taken the sentinel from its queue no further speech is returned, so *)
(* at most MAX_SILENT_ROUNDS silent rounds follow.                         *)
(***************************************************************************)
C35_Terminated(t) ==
  /\ pc[t] \in {"end_call", "done"}
  /\ status[call_state[t]] \in {COMPLETED, FAILED}

C35_LoopEnds ==
  \A t \in Tasks :
    (stream[t] = "closed" /\ pc[t] \in LoopPcs) ~> C35_Terminated(t)

\* after the sentinel, receive_speech returns no speech
C35_SilentAfterSentinel ==
  [][\A t \in Tasks :
       (SentinelObserved(t) /\ pc[t] = "recv" /\ pc'[t] # "recv") =>
         pc'[t] \in {"nudge", "completed", "teardown"}]_vars

C35_StreamEndTerminatesLoop == C35_LoopEnds /\ C35_SilentAfterSentinel

(***************************************************************************)
(* C36: every vendor call that the placement request created is ended by   *)
(* an _end_twilio_call invocation: a task that has finished and whose      *)
(* placement request created a call at the vendor has asked the vendor to  *)
(* end it, wherever the task was cancelled or failed.                      *)
(***************************************************************************)
C36_CreatedCallIsEnded ==
  \A t \in Tasks :
    (pc[t] = "done" /\ vendor_call[t] # "none") => end_calls[t] >= 1

(***************************************************************************)
(* C39: throughout a real call the turn counter equals the number of       *)
(* transcript entries, so the total_turns of "call_complete" and the       *)
(* turn count of the summary equal the number of recorded entries.         *)
(***************************************************************************)
CompletionReports ==
  SelectSeq(browser_out, LAMBDA m : m.type = "call_complete")

C39_TurnCountIsLogLength ==
  /\ turn_count = Len(conversation_log)
  /\ \A k \in 1..Len(CompletionReports) :
       CompletionReports[k].total_turns = Len(conversation_log)
  /\ \A k \in 1..Len(fn_out) :
       /\ fn_out[k].turn_count = Len(fn_out[k].conversation_log)
       /\ fn_out[k].conversation_log = conversation_log

\* a completed call of at least three turns was reported and summarised
C39_Witness ==
  /\ Len(CompletionReports) = 1
  /\ CompletionReports[1].total_turns >= 3
  /\ Len(fn_out) = 1

(***************************************************************************)
(* C37: the simulated call never deadlocks: it never happens that the      *)
(* hospital agent and the backend both wait to receive while no frame is   *)
(* in flight in either direction and neither has left the call, whatever   *)
(* the expects, hold and call_should_end values of the hospital turns and  *)
(* whatever the types of the agent's actions.                              *)
(***************************************************************************)
BothWaitToReceive ==
  /\ sim.h_pc \in {"await_start", "await_caller"}
  /\ sim.b_pc = "await_hospital"

C37_NoDeadlock == ~(BothWaitToReceive /\ sim.to_h = <<>> /\ sim.to_b = <<>>)

\* both ends wait to receive after the second hospital turn, with the
\* caller's answer still in flight
C37_Witness ==
  /\ BothWaitToReceive
  /\ sim.h_sent >= 2
  /\ sim.to_h # <<>>
  /\ sim.to_b = <<>>

(***************************************************************************)
(* C38: in a simulated call the two sides stay in lockstep: every caller   *)
(* frame the hospital agent consumes after sending its k-th turn was       *)
(* produced by the backend in response to that k-th turn, and no caller    *)
(* frame is left unconsumed when the hospital generates its next turn.     *)
(***************************************************************************)
CallerFramesInFlight ==
  SelectSeq(sim.to_h, LAMBDA m : m.type \in {"caller_speech", "caller_dtmf", "call_end"})

C38_AnswersCurrentTurn == sim.h_last.re = sim.h_last.after

C38_NothingLeftBehind ==
  sim'.h_sent > sim.h_sent => CallerFramesInFlight = <<>>

C38_Lockstep == []C38_AnswersCurrentTurn /\ [][C38_NothingLeftBehind]_vars

====
